---- MODULE Spec2Model ----
(***************************************************************************)
(* The module orchestration core of src/core/src/modules.js (the enhanced  *)
(* module system, lines 1-242): the module registry, the lifecycle hook    *)
(* registry, dependency-ordered initialization and reverse-order shutdown. *)
(*                                                                         *)
(* initializeModules and shutdownModules are async functions.  A call is   *)
(* a coroutine: its position (pc), its stack of initializeModule frames    *)
(* and its context live in one slot of `calls`.  Every action is one piece *)
(* of straight-line code of the source; the outcome of a callback the core *)
(* awaits or invokes (a module's initialize, shutdown, routes, a lifecycle *)
(* hook) is an input of the action that resumes after it.                  *)
(***************************************************************************)
EXTENDS Integers, Sequences, FiniteSets, TLC

(***************************************************************************)
(* Bounds of the model.                                                    *)
(***************************************************************************)
\* call slots: initializeModules / shutdownModules calls that can be in flight
MaxCalls == 2
\* depth of nested initializeModule frames at which the engine's stack overflows
MaxDepth == 4
\* lifecycle callbacks that can be registered in all
MaxHooks == 2
\* calls the application of SpecSequence makes one after the other
MaxLog == 3
\* the moments of the clock of the auth module: 0..MaxTime
MaxTime == 2

(***************************************************************************)
(* Inputs.  Module names are ordinary words (not integer-like, not names   *)
(* of Object.prototype members), so Object.keys(modules) is insertion      *)
(* order and modules[name] is an own property or undefined.                *)
(***************************************************************************)
Names == {"a", "b", "c"}
\* a dependency name nobody registers
Ghost == "ghost"
\* what a callback can throw or reject with: an Error object or a primitive
Throwables == {"error", "primitive"}
Outcomes == {"ok"} \cup Throwables

\* the six lifecycle events of the LifecycleEvent type
ModuleEvents == {"beforeInit", "afterInit"}
LifecycleEvents ==
    {"beforeAllInit", "afterAllInit", "beforeShutdown", "afterShutdown"} \cup ModuleEvents

(***************************************************************************)
(* Module definitions.  `id` is the module's id property and serves as the *)
(* object's identity; `services` is 0 when the module declares none and    *)
(* the identity of its services object otherwise; initialize, routes and   *)
(* shutdown say whether the property is a function.                        *)
(***************************************************************************)
ModuleDefinition(id, deps, init, routes, services, shutdown) ==
    [id |-> id, dependencies |-> deps, initialize |-> init, routes |-> routes,
     services |-> IF services THEN id ELSE 0, shutdown |-> shutdown]

Catalogue ==
    << ModuleDefinition(1, << >>,            TRUE,  TRUE,  TRUE,  TRUE),
       ModuleDefinition(2, << >>,            FALSE, FALSE, FALSE, FALSE),
       ModuleDefinition(3, <<"a">>,          TRUE,  FALSE, TRUE,  FALSE),
       ModuleDefinition(4, <<"a", "b">>,     TRUE,  TRUE,  TRUE,  TRUE),
       ModuleDefinition(5, <<"a", Ghost>>,   TRUE,  TRUE,  TRUE,  TRUE) >>

ModuleDefs == {Catalogue[i] : i \in DOMAIN Catalogue}

\* arguments registerModule rejects: an empty name, a name that is not a string
\* (the number 42), a non-object, an object without id, an object with an id
\* and without name
EmptyName == ""
NotAString == "#42"
NotAnObject == [id |-> -1, dependencies |-> << >>, initialize |-> FALSE, routes |-> FALSE,
                services |-> 0, shutdown |-> FALSE]
MissingId == [id |-> 0, dependencies |-> << >>, initialize |-> FALSE, routes |-> FALSE,
              services |-> 0, shutdown |-> FALSE]
MissingName == [id |-> -2, dependencies |-> << >>, initialize |-> FALSE, routes |-> FALSE,
                services |-> 0, shutdown |-> FALSE]
\* line 22: name && typeof name === 'string'
IsNonEmptyString(name) == name \notin {EmptyName, NotAString}
\* line 26: module && typeof module === 'object'
IsObject(module) == module.id # -1
\* a registerModule without the check of line 30
IdAndNameNotRequired(module) == TRUE
\* line 30: module.id && module.name
HasIdAndName(module) == module.id > 0

(***************************************************************************)
(* State.                                                                  *)
(***************************************************************************)
VARIABLES
    modules,         \* the registry object: registered name -> definition
    moduleKeys,      \* the registry's own keys in insertion order (Object.keys)
    initialized,     \* the Initialized Set, a JS Set: its enumeration order
    lifecycleHooks,  \* event -> sequence of registered callbacks (their ids)
    calls,           \* call slot -> the state of that async call
    result,          \* what the last synchronous API call returned or threw
    callLog,         \* the caller: the calls it has made so far, in order
    snapshot,        \* the caller: the object the last getAllModules gave it
    held,            \* the caller: the context of an earlier call it has kept
    exchange,        \* framework.js: the request being handled and what was called
    users,           \* auth module: the users Map, user id -> user
    sessions,        \* auth module: the sessions Map, token -> session
    now,             \* auth module: what new Date() gives
    reply,           \* auth module: what the last operation returned or threw
    issued           \* the clients: what login returned for a token, logged out since?

\* the state of the module system, and the state of the adapter and the auth module
coreVars == <<modules, moduleKeys, initialized, lifecycleHooks, calls, result,
              callLog, snapshot, held>>
webVars == <<exchange, users, sessions, now, reply, issued>>

vars == <<modules, moduleKeys, initialized, lifecycleHooks, calls, result,
          callLog, snapshot, held, exchange, users, sessions, now, reply,
          issued>>

CallIds == 1..MaxCalls

NoError == [kind |-> "none", at |-> "", obj |-> TRUE, module |-> ""]
\* an error raised at module `at` (or "" outside any module); module is the tag
Error(kind, at, obj) == [kind |-> kind, at |-> at, obj |-> obj, module |-> ""]

\* the last synchronous API call: the operation, the name and the module object
\* (its id) it was given, and the object it returned (id, 0 for undefined) or
\* the message of the Error it threw
NoResult == [op |-> "none", name |-> "", arg |-> 0, tag |-> "none", id |-> 0]
Returned(op, name, arg, module) ==
    [op |-> op, name |-> name, arg |-> arg, tag |-> "return", id |-> module.id]
ReturnedUndefined(op, name) ==
    [op |-> op, name |-> name, arg |-> 0, tag |-> "return", id |-> 0]
Threw(op, name, arg, message) ==
    [op |-> op, name |-> name, arg |-> arg, tag |-> message, id |-> 0]

FreshCall ==
    [kind |-> "none", status |-> "unused", pc |-> "none", app |-> FALSE,
     services |-> << >>, keys |-> << >>, ki |-> 0, stack |-> << >>,
     hev |-> "none", hi |-> 0, hret |-> "none", err |-> NoError, thrown |-> NoError,
     moduleNames |-> << >>, i |-> 0, trace |-> << >>, state |-> << >>]

\* no request is being handled
NoExchange ==
    [pc |-> "idle", layer |-> "express", wrapped |-> FALSE, writes |-> FALSE,
     fn |-> "undefined", headersSent |-> FALSE, log |-> << >>, settled |-> "none",
     reason |-> ""]

\* no operation of the auth module was called yet
NoReply == [op |-> "none", token |-> "undefined", tag |-> "none", user |-> ""]

\* the caller has no object of getAllModules yet; it holds no context yet
NoSnapshot == [ref |-> "none", obj |-> << >>]
NoContext == [kept |-> FALSE, call |-> 0, services |-> << >>, state |-> << >>]

Init ==
    /\ modules = << >>
    /\ moduleKeys = << >>
    /\ initialized = << >>
    /\ lifecycleHooks = [e \in LifecycleEvents |-> << >>]
    /\ calls = [c \in CallIds |-> FreshCall]
    /\ result = NoResult
    /\ callLog = << >>
    /\ snapshot = NoSnapshot
    /\ held = NoContext
    /\ exchange = NoExchange
    /\ users = << >>
    /\ sessions = << >>
    /\ now = 0
    /\ reply = NoReply
    /\ issued = << >>

\* no initializeModules / shutdownModules call is in flight
Idle == \A c \in CallIds : calls[c].status # "active"

(***************************************************************************)
(* The registry: registerModule, getModule, getAllModules.                 *)
(***************************************************************************)
\* modules[name] is truthy
Registered(name) == name \in DOMAIN modules

\* a registerModule without the check of line 35
NeverRegistered(name) == FALSE

\* line 35: the name is taken
AlreadyRegistered(name) == Registered(name)

\* initialized.has(name)
Has(set, name) == \E k \in 1..Len(set) : set[k] = name

\* a collection that enumerates the newest entry first
AddFirst(set, name) == IF Has(set, name) THEN set ELSE <<name>> \o set

\* initialized.add(name): a Set keeps the first insertion's position
Add(set, name) == IF Has(set, name) THEN set ELSE Append(set, name)

\* lines 20-43
registerModule(name, module) ==
    /\ IF ~IsNonEmptyString(name)
         THEN /\ result' = Threw("registerModule", name, module.id,
                                 "Module name must be a non-empty string")
              /\ UNCHANGED <<modules, moduleKeys>>
       ELSE IF ~IsObject(module)
         THEN /\ result' = Threw("registerModule", name, module.id,
                                 "Module must be a valid object")
              /\ UNCHANGED <<modules, moduleKeys>>
       ELSE IF ~HasIdAndName(module)
         THEN /\ result' = Threw("registerModule", name, module.id,
                                 "Module must have id and name properties")
              /\ UNCHANGED <<modules, moduleKeys>>
       ELSE IF AlreadyRegistered(name)
         THEN /\ result' = Returned("registerModule", name, module.id, modules[name])
              /\ UNCHANGED <<modules, moduleKeys>>
       ELSE /\ modules' = [n \in DOMAIN modules \cup {name} |->
                              IF n = name THEN module ELSE modules[n]]
            /\ moduleKeys' = IF Has(moduleKeys, name) THEN moduleKeys
                             ELSE Append(moduleKeys, name)
            /\ result' = Returned("registerModule", name, module.id, module)
    /\ UNCHANGED <<initialized, lifecycleHooks, calls>>

\* lines 51-53
getModule(name) ==
    /\ result' = IF Registered(name) THEN Returned("getModule", name, 0, modules[name])
                 ELSE ReturnedUndefined("getModule", name)
    /\ UNCHANGED <<modules, moduleKeys, initialized, lifecycleHooks, calls>>

\* the object the caller was given: a copy of its own, or the registry itself
SnapshotObject == IF snapshot.ref = "registry" THEN modules ELSE snapshot.obj

\* a getAllModules that returns the registry object itself
getAllModulesAliased ==
    /\ snapshot' = [ref |-> "registry", obj |-> << >>]
    /\ result' = [op |-> "getAllModules", name |-> "", arg |-> 0, tag |-> "return", id |-> 0]
    /\ UNCHANGED <<modules, moduleKeys, initialized, lifecycleHooks, calls>>

\* lines 60-62: { ...modules }, a new object with the registry's own properties
getAllModules ==
    /\ snapshot' = [ref |-> "copy", obj |-> modules]
    /\ result' = [op |-> "getAllModules", name |-> "", arg |-> 0, tag |-> "return", id |-> 0]
    /\ UNCHANGED <<modules, moduleKeys, initialized, lifecycleHooks, calls>>

\* the caller assigns a property of the object it was given: snapshot[name] = module
SnapshotAssign(name, module) ==
    /\ snapshot.ref # "none"
    /\ IF snapshot.ref = "registry"
         THEN /\ modules' = [n \in DOMAIN modules \cup {name} |->
                                IF n = name THEN module ELSE modules[n]]
              /\ moduleKeys' = IF Has(moduleKeys, name) THEN moduleKeys
                               ELSE Append(moduleKeys, name)
              /\ UNCHANGED snapshot
       ELSE /\ snapshot' = [snapshot EXCEPT !.obj =
                                [n \in DOMAIN snapshot.obj \cup {name} |->
                                    IF n = name THEN module ELSE snapshot.obj[n]]]
            /\ UNCHANGED <<modules, moduleKeys>>
    /\ result' = NoResult
    /\ UNCHANGED <<initialized, lifecycleHooks, calls>>

\* the caller deletes a property of the object it was given: delete snapshot[name]
SnapshotDelete(name) ==
    /\ snapshot.ref # "none"
    /\ name \in DOMAIN SnapshotObject
    /\ IF snapshot.ref = "registry"
         THEN /\ modules' = [n \in DOMAIN modules \ {name} |-> modules[n]]
              /\ moduleKeys' = SelectSeq(moduleKeys, LAMBDA n : n # name)
              /\ UNCHANGED snapshot
       ELSE /\ snapshot' = [snapshot EXCEPT !.obj =
                                [n \in DOMAIN snapshot.obj \ {name} |-> snapshot.obj[n]]]
            /\ UNCHANGED <<modules, moduleKeys>>
    /\ result' = NoResult
    /\ UNCHANGED <<initialized, lifecycleHooks, calls>>

(***************************************************************************)
(* The lifecycle hook registry.                                            *)
(***************************************************************************)
\* the number of callbacks registered so far
HookCount ==
    LET RECURSIVE Sum(_)
        Sum(S) == IF S = {} THEN 0
                  ELSE LET e == CHOOSE x \in S : TRUE
                       IN Len(lifecycleHooks[e]) + Sum(S \ {e})
    IN Sum(LifecycleEvents)

\* lines 71-77: the callback is appended to the event's list; a callback is
\* identified by its rank among all the callbacks registered
registerLifecycleHook(event) ==
    /\ HookCount < MaxHooks
    /\ lifecycleHooks' = [lifecycleHooks EXCEPT ![event] = Append(@, HookCount + 1)]
    /\ result' = NoResult
    /\ UNCHANGED <<modules, moduleKeys, initialized, calls>>

(***************************************************************************)
(* Helpers of the async calls.                                             *)
(***************************************************************************)
Active(c) == calls[c].status = "active"
At(c, pc) == Active(c) /\ calls[c].pc = pc

\* a call takes the lowest slot not in flight
FreeSlot(c) == ~Active(c) /\ \A d \in CallIds : d < c => Active(d)

\* the initializeModule frame that is executing
Frame(c) == calls[c].stack[Len(calls[c].stack)]
Pop(stack) == SubSeq(stack, 1, Len(stack) - 1)

\* an entry of the history a call keeps: which callback the core invoked
Ev(op, name, hook) == [op |-> op, name |-> name, hook |-> hook]

\* the moduleName the context of a hook is decorated with
HookModule(c) == IF calls[c].hev \in ModuleEvents THEN Frame(c).name ELSE ""

\* triggerLifecycleHooks(event, ...) is entered; `ret` is where its caller resumes
Trigger(call, event, ret) == [call EXCEPT !.pc = "hooks", !.hev = event, !.hi = 1, !.hret = ret]

\* line 151: error.module = name.  The source is an ES module, hence strict:
\* assigning a property to a primitive throws a TypeError out of the catch block
TagError(err, name) ==
    IF err.obj THEN [err EXCEPT !.module = name]
    ELSE Error("TypeError", name, TRUE)

\* an initializeModule that forgets to publish
PublishNothing(services, name, module) == services

\* lines 140-142: context.services[name] = module.services
Publish(services, name, module) ==
    IF module.services # 0 THEN (name :> module.services) @@ services ELSE services

\* an argument that is not given, or a stored value that is undefined
Undefined == "undefined"
\* the names a service is asked for by: none, the empty string, the operation
\* every services object has, an operation no services object has
ServiceNames == {Undefined, "", "find", "other"}
\* !!value of a string argument
Truthy(value) == value \notin {Undefined, ""}
\* services[key] of a services object: its one operation, or undefined (0)
Property(services, key) == IF key = "find" THEN 10 * services ELSE 0

\* lines 175-182: context.getService(moduleName, serviceName), 0 standing for undefined
getService(c, moduleName, serviceName) ==
    LET moduleServices == IF moduleName \in DOMAIN calls[c].services
                          THEN calls[c].services[moduleName] ELSE 0
    IN IF moduleServices = 0 THEN 0
       ELSE IF Truthy(serviceName) THEN Property(moduleServices, serviceName)
       ELSE moduleServices

(***************************************************************************)
(* context.setState and context.getState (lines 183-188).  A context is    *)
(* named by the slot of its call, or by 0 for the context the caller has   *)
(* kept from an earlier call.                                              *)
(***************************************************************************)
\* keys and values of the state: a plain key and a dotted one; undefined, the
\* falsy values null, false, 0 and '', and an ordinary value
StateKeys == {"a", "a.b"}
StateValues == {Undefined, "null", "false", "0", "", "v"}
Defaults == {Undefined, "d"}

\* context.state of a context
State(ctx) == IF ctx = 0 THEN held.state ELSE calls[ctx].state

\* a getState written with ||: context.state[key] || defaultValue
getStateOrDefault(ctx, key, defaultValue) ==
    IF key \in DOMAIN State(ctx) /\ State(ctx)[key] \notin {Undefined, "null", "false", "0", ""}
    THEN State(ctx)[key] ELSE defaultValue

\* lines 186-188: context.state[key] !== undefined ? context.state[key] : defaultValue
getState(ctx, key, defaultValue) ==
    IF key \in DOMAIN State(ctx) /\ State(ctx)[key] # Undefined
    THEN State(ctx)[key] ELSE defaultValue

\* context.state[key] = value
Put(state, key, value) ==
    [k \in DOMAIN state \cup {key} |-> IF k = key THEN value ELSE state[k]]

\* lines 183-185: setState(key, value), called by the module whose initialize is
\* running or by the caller, on the context of the call or on the one kept
setState(ctx, key, value) ==
    /\ IF ctx = 0
         THEN /\ held.kept
              /\ held' = [held EXCEPT !.state = Put(@, key, value)]
              /\ UNCHANGED calls
       ELSE /\ calls[ctx].kind = "init"
            /\ At(ctx, "initAwait") \/ calls[ctx].status = "resolved"
            /\ calls' = [calls EXCEPT ![ctx].state = Put(@, key, value)]
            /\ UNCHANGED held
    /\ result' = [op |-> "setState", name |-> key, arg |-> 0, tag |-> value, id |-> ctx]
    /\ UNCHANGED <<modules, moduleKeys, initialized, lifecycleHooks>>

\* the caller keeps the context an initializeModules call resolved to
Keep(c) ==
    /\ calls[c].kind = "init"
    /\ calls[c].status = "resolved"
    /\ ~held.kept
    /\ held' = [kept |-> TRUE, call |-> Len(callLog),
                services |-> calls[c].services, state |-> calls[c].state]
    /\ UNCHANGED <<modules, moduleKeys, initialized, lifecycleHooks, calls, result>>

(***************************************************************************)
(* triggerLifecycleHooks (lines 87-93).                                    *)
(***************************************************************************)
\* a triggerLifecycleHooks that starts with the callback registered last
HookInvokeLastFirst(c) ==
    /\ At(c, "hooks")
    /\ calls[c].hi <= Len(lifecycleHooks[calls[c].hev])
    /\ LET hooks == lifecycleHooks[calls[c].hev] IN
       calls' = [calls EXCEPT ![c].pc = "hookAwait",
                   ![c].trace = Append(@, Ev(calls[c].hev, HookModule(c),
                                             hooks[Len(hooks) + 1 - calls[c].hi]))]
    /\ UNCHANGED <<modules, moduleKeys, initialized, lifecycleHooks, result>>

\* line 91: the next callback is invoked and awaited
HookInvoke(c) ==
    /\ At(c, "hooks")
    /\ calls[c].hi <= Len(lifecycleHooks[calls[c].hev])
    /\ calls' = [calls EXCEPT ![c].pc = "hookAwait",
                   ![c].trace = Append(@, Ev(calls[c].hev, HookModule(c),
                                             lifecycleHooks[calls[c].hev][calls[c].hi]))]
    /\ UNCHANGED <<modules, moduleKeys, initialized, lifecycleHooks, result>>

\* the awaited callback settles; a rejection leaves triggerLifecycleHooks, into the
\* try block of initializeModule (lines 128, 149) or out of the call (192, 205, 218, 241)
HookSettle(c, outcome) ==
    /\ At(c, "hookAwait")
    /\ calls' = [calls EXCEPT ![c] =
          IF outcome = "ok" THEN [@ EXCEPT !.pc = "hooks", !.hi = @ + 1]
          ELSE [@ EXCEPT !.err = Error("hook", HookModule(c), outcome = "error"),
                         !.thrown = Error("hook", HookModule(c), outcome = "error"),
                         !.pc = IF calls[c].hev \in ModuleEvents THEN "catch" ELSE "throw"]]
    /\ UNCHANGED <<modules, moduleKeys, initialized, lifecycleHooks, result>>

\* the loop of line 90 is over: the caller's await resumes
HooksDone(c) ==
    /\ At(c, "hooks")
    /\ calls[c].hi > Len(lifecycleHooks[calls[c].hev])
    /\ calls' = [calls EXCEPT ![c].pc = calls[c].hret]
    /\ UNCHANGED <<modules, moduleKeys, initialized, lifecycleHooks, result>>

(***************************************************************************)
(* initializeModules (lines 163-208).                                      *)
(***************************************************************************)
\* an initializeModules that goes on with the services and state of the run before
initializeModulesSharedContext(c, app) ==
    /\ FreeSlot(c)
    /\ initialized' = << >>
    /\ calls' = [calls EXCEPT ![c] =
          Trigger([FreshCall EXCEPT !.kind = "init", !.status = "active", !.app = app,
                                    !.services = calls[c].services,
                                    !.state = calls[c].state],
                  "beforeAllInit", "loop")]
    /\ result' = NoResult
    /\ UNCHANGED <<modules, moduleKeys, lifecycleHooks>>

\* an initializeModules that keeps the Initialized Set of the run before
initializeModulesCached(c, app) ==
    /\ FreeSlot(c)
    /\ calls' = [calls EXCEPT ![c] =
          Trigger([FreshCall EXCEPT !.kind = "init", !.status = "active", !.app = app],
                  "beforeAllInit", "loop")]
    /\ result' = NoResult
    /\ UNCHANGED <<modules, moduleKeys, initialized, lifecycleHooks>>

\* lines 163-192: clear the Initialized Set, build the context, fire beforeAllInit
initializeModules(c, app) ==
    /\ FreeSlot(c)
    /\ initialized' = << >>
    /\ calls' = [calls EXCEPT ![c] =
          Trigger([FreshCall EXCEPT !.kind = "init", !.status = "active", !.app = app],
                  "beforeAllInit", "loop")]
    /\ result' = NoResult
    /\ UNCHANGED <<modules, moduleKeys, lifecycleHooks>>

\* a loop that walks the registry from its last name to its first
Reverse(seq) == [k \in 1..Len(seq) |-> seq[Len(seq) + 1 - k]]
LoopStartReversed(c) ==
    /\ At(c, "loop")
    /\ calls' = [calls EXCEPT ![c].keys = Reverse(moduleKeys), ![c].ki = 1, ![c].pc = "top"]
    /\ UNCHANGED <<modules, moduleKeys, initialized, lifecycleHooks, result>>

\* line 195: Object.keys(modules) is taken once
LoopStart(c) ==
    /\ At(c, "loop")
    /\ calls' = [calls EXCEPT ![c].keys = moduleKeys, ![c].ki = 1, ![c].pc = "top"]
    /\ UNCHANGED <<modules, moduleKeys, initialized, lifecycleHooks, result>>

\* an initializeModules that returns after the last module without firing afterAllInit
LoopNextSkipsHooks(c) ==
    /\ At(c, "top")
    /\ calls' = [calls EXCEPT ![c] =
          IF calls[c].ki <= Len(calls[c].keys)
          THEN [@ EXCEPT !.stack = <<[name |-> calls[c].keys[calls[c].ki], di |-> 0]>>,
                         !.pc = "enter"]
          ELSE [@ EXCEPT !.pc = "finish"]]
    /\ UNCHANGED <<modules, moduleKeys, initialized, lifecycleHooks, result>>

\* lines 195-197, 205: the next name of the registry, or the afterAllInit hooks
LoopNext(c) ==
    /\ At(c, "top")
    /\ calls' = [calls EXCEPT ![c] =
          IF calls[c].ki <= Len(calls[c].keys)
          THEN [@ EXCEPT !.stack = <<[name |-> calls[c].keys[calls[c].ki], di |-> 0]>>,
                         !.pc = "enter"]
          ELSE Trigger(@, "afterAllInit", "finish")]
    /\ UNCHANGED <<modules, moduleKeys, initialized, lifecycleHooks, result>>

\* line 207: return context
Resolve(c) ==
    /\ At(c, "finish")
    /\ calls' = [calls EXCEPT ![c].status = "resolved", ![c].pc = "done"]
    /\ UNCHANGED <<modules, moduleKeys, initialized, lifecycleHooks, result>>

\* a catch block at lines 198-201 that logs the error and goes on with the next name
Continue(c) ==
    /\ At(c, "throw")
    /\ calls' = [calls EXCEPT ![c] =
          IF calls[c].kind = "init" /\ calls[c].ki >= 1
            THEN [@ EXCEPT !.stack = << >>, !.ki = @ + 1, !.pc = "top"]
          ELSE [@ EXCEPT !.status = "rejected", !.pc = "done", !.stack = << >>]]
    /\ UNCHANGED <<modules, moduleKeys, initialized, lifecycleHooks, result>>

\* a catch block at lines 198-201 that undoes the modules initialized so far
RejectWithRollback(c) ==
    /\ At(c, "throw")
    /\ initialized' = << >>
    /\ calls' = [calls EXCEPT ![c].status = "rejected", ![c].pc = "done", ![c].stack = << >>]
    /\ UNCHANGED <<modules, moduleKeys, lifecycleHooks, result>>

\* an error left initializeModule, or a hook of a global event rejected: every
\* awaiting initializeModule frame is in its dependency loop, outside its try block,
\* so the error reaches lines 198-201 (logged, rethrown) and rejects the call
Reject(c) ==
    /\ At(c, "throw")
    /\ calls' = [calls EXCEPT ![c].status = "rejected", ![c].pc = "done", ![c].stack = << >>]
    /\ UNCHANGED <<modules, moduleKeys, initialized, lifecycleHooks, result>>

(***************************************************************************)
(* initializeModule (lines 103-154).                                       *)
(***************************************************************************)
\* an initializeModule without the check of line 105
NeverInitialized(name) == FALSE

\* line 105: initialized.has(name)
AlreadyInitialized(name) == Has(initialized, name)

\* line 117: modules[dep] is truthy
DependencyRegistered(dep) == Registered(dep)

\* an initializeModule with an in-progress marker: a module met again while it
\* is being initialized is passed over
EnterInProgressSkips(c) ==
    /\ At(c, "enter")
    /\ LET name == Frame(c).name
           inProgress == \E k \in 1..(Len(calls[c].stack) - 1) : calls[c].stack[k].name = name
       IN calls' = [calls EXCEPT ![c] =
          IF AlreadyInitialized(name) \/ inProgress
            THEN [@ EXCEPT !.stack = Pop(@), !.pc = "ret"]
          ELSE IF ~Registered(name)
            THEN [@ EXCEPT !.err = Error("notfound", name, TRUE),
                           !.thrown = Error("notfound", name, TRUE), !.pc = "throw"]
          ELSE [@ EXCEPT !.stack[Len(calls[c].stack)].di = 1, !.pc = "deps"]]
    /\ UNCHANGED <<modules, moduleKeys, initialized, lifecycleHooks, result>>

\* an initializeModule that fires the beforeInit hooks of a module before it
\* initializes the module's dependencies, and again after them
EnterHooksFirst(c) ==
    /\ At(c, "enter")
    /\ LET name == Frame(c).name IN
       calls' = [calls EXCEPT ![c] =
          IF AlreadyInitialized(name)
            THEN [@ EXCEPT !.stack = Pop(@), !.pc = "ret"]
          ELSE IF ~Registered(name)
            THEN [@ EXCEPT !.err = Error("notfound", name, TRUE),
                           !.thrown = Error("notfound", name, TRUE), !.pc = "throw"]
          ELSE Trigger([@ EXCEPT !.stack[Len(calls[c].stack)].di = 1], "beforeInit", "deps")]
    /\ UNCHANGED <<modules, moduleKeys, initialized, lifecycleHooks, result>>

\* lines 105-112: skip a module that is initialized, look the module up
Enter(c) ==
    /\ At(c, "enter")
    /\ LET name == Frame(c).name IN
       calls' = [calls EXCEPT ![c] =
          IF AlreadyInitialized(name)
            THEN [@ EXCEPT !.stack = Pop(@), !.pc = "ret"]
          ELSE IF ~Registered(name)
            THEN [@ EXCEPT !.err = Error("notfound", name, TRUE),
                           !.thrown = Error("notfound", name, TRUE), !.pc = "throw"]
          ELSE [@ EXCEPT !.stack[Len(calls[c].stack)].di = 1, !.pc = "deps"]]
    /\ UNCHANGED <<modules, moduleKeys, initialized, lifecycleHooks, result>>

\* an initializeModule that does not initialize the dependencies
DependenciesSkipped(c) ==
    /\ At(c, "deps")
    /\ calls' = [calls EXCEPT ![c] = Trigger(@, "beforeInit", "callInit")]
    /\ UNCHANGED <<modules, moduleKeys, initialized, lifecycleHooks, result>>

\* an initializeModule that passes over a dependency nobody registered
DependenciesLenient(c) ==
    /\ At(c, "deps")
    /\ LET name == Frame(c).name
           deps == modules[name].dependencies
           di   == Frame(c).di
       IN calls' = [calls EXCEPT ![c] =
          IF di > Len(deps)
            THEN Trigger(@, "beforeInit", "callInit")
          ELSE IF ~Registered(deps[di])
            THEN [@ EXCEPT !.stack[Len(calls[c].stack)].di = @ + 1]
          ELSE IF Len(calls[c].stack) >= MaxDepth
            THEN [@ EXCEPT !.err = Error("RangeError", name, TRUE),
                           !.thrown = Error("RangeError", name, TRUE), !.pc = "throw"]
          ELSE [@ EXCEPT !.stack = Append(@, [name |-> deps[di], di |-> 0]),
                         !.pc = "enter"]]
    /\ UNCHANGED <<modules, moduleKeys, initialized, lifecycleHooks, result>>

\* lines 115-123, 128: the next dependency is checked and entered; after the last
\* one the try block begins with the beforeInit hooks
Dependencies(c) ==
    /\ At(c, "deps")
    /\ LET name == Frame(c).name
           deps == modules[name].dependencies
           di   == Frame(c).di
       IN calls' = [calls EXCEPT ![c] =
          IF di > Len(deps)
            THEN Trigger(@, "beforeInit", "callInit")
          ELSE IF ~DependencyRegistered(deps[di])
            THEN [@ EXCEPT !.err = Error("unresolved", name, TRUE),
                           !.thrown = Error("unresolved", name, TRUE), !.pc = "throw"]
          ELSE IF Len(calls[c].stack) >= MaxDepth
            THEN [@ EXCEPT !.err = Error("RangeError", name, TRUE),
                           !.thrown = Error("RangeError", name, TRUE), !.pc = "throw"]
          ELSE [@ EXCEPT !.stack = Append(@, [name |-> deps[di], di |-> 0]),
                         !.pc = "enter"]]
    /\ UNCHANGED <<modules, moduleKeys, initialized, lifecycleHooks, result>>

\* an initializeModule call returned: the await of line 121 or of line 197 resumes
Resume(c) ==
    /\ At(c, "ret")
    /\ calls' = [calls EXCEPT ![c] =
          IF calls[c].stack = << >>
            THEN [@ EXCEPT !.ki = @ + 1, !.pc = "top"]
          ELSE [@ EXCEPT !.stack[Len(calls[c].stack)].di = @ + 1, !.pc = "deps"]]
    /\ UNCHANGED <<modules, moduleKeys, initialized, lifecycleHooks, result>>

\* lines 130-132: module.initialize(context) is invoked and awaited
CallInitialize(c) ==
    /\ At(c, "callInit")
    /\ LET name == Frame(c).name IN
       calls' = [calls EXCEPT ![c] =
          IF modules[name].initialize
            THEN [@ EXCEPT !.trace = Append(@, Ev("initialize", name, 0)),
                           !.pc = "initAwait"]
          ELSE [@ EXCEPT !.pc = "routes"]]
    /\ UNCHANGED <<modules, moduleKeys, initialized, lifecycleHooks, result>>

\* the promise of initialize settles
InitializeSettled(c, outcome) ==
    /\ At(c, "initAwait")
    /\ calls' = [calls EXCEPT ![c] =
          IF outcome = "ok" THEN [@ EXCEPT !.pc = "routes"]
          ELSE [@ EXCEPT !.err = Error("initialize", Frame(c).name, outcome = "error"),
                         !.thrown = Error("initialize", Frame(c).name, outcome = "error"),
                         !.pc = "catch"]]
    /\ UNCHANGED <<modules, moduleKeys, initialized, lifecycleHooks, result>>

\* an initializeModule that mounts the routes whether or not there is an app
MountRoutesWithoutApp(c, outcome) ==
    /\ At(c, "routes")
    /\ LET name == Frame(c).name IN
       IF modules[name].routes
         THEN calls' = [calls EXCEPT ![c] =
                IF outcome = "ok"
                  THEN [@ EXCEPT !.trace = Append(@, Ev("routes", name, 0)),
                                 !.pc = "publish"]
                ELSE [@ EXCEPT !.trace = Append(@, Ev("routes", name, 0)),
                               !.err = Error("routes", name, outcome = "error"),
                               !.thrown = Error("routes", name, outcome = "error"),
                               !.pc = "catch"]]
       ELSE /\ outcome = "ok"
            /\ calls' = [calls EXCEPT ![c].pc = "publish"]
    /\ UNCHANGED <<modules, moduleKeys, initialized, lifecycleHooks, result>>

\* lines 135-137: module.routes(context.app), a synchronous call
MountRoutes(c, outcome) ==
    /\ At(c, "routes")
    /\ LET name == Frame(c).name IN
       IF modules[name].routes /\ calls[c].app
         THEN calls' = [calls EXCEPT ![c] =
                IF outcome = "ok"
                  THEN [@ EXCEPT !.trace = Append(@, Ev("routes", name, 0)),
                                 !.pc = "publish"]
                ELSE [@ EXCEPT !.trace = Append(@, Ev("routes", name, 0)),
                               !.err = Error("routes", name, outcome = "error"),
                               !.thrown = Error("routes", name, outcome = "error"),
                               !.pc = "catch"]]
       ELSE /\ outcome = "ok"
            /\ calls' = [calls EXCEPT ![c].pc = "publish"]
    /\ UNCHANGED <<modules, moduleKeys, initialized, lifecycleHooks, result>>

\* an initializeModule that fires the afterInit hooks without marking the module
PublishWithoutMark(c) ==
    /\ At(c, "publish")
    /\ LET name == Frame(c).name IN
       calls' = [calls EXCEPT ![c] =
             Trigger([@ EXCEPT !.services = Publish(@, name, modules[name])],
                     "afterInit", "leave")]
    /\ UNCHANGED <<modules, moduleKeys, initialized, lifecycleHooks, result>>

\* lines 140-149: publish the services, mark the module initialized, fire afterInit
PublishAndMark(c) ==
    /\ At(c, "publish")
    /\ LET name == Frame(c).name IN
       /\ initialized' = Add(initialized, name)
       /\ calls' = [calls EXCEPT ![c] =
             Trigger([@ EXCEPT !.services = Publish(@, name, modules[name]),
                               !.trace = Append(@, Ev("add", name, 0))],
                     "afterInit", "leave")]
    /\ UNCHANGED <<modules, moduleKeys, lifecycleHooks, result>>

\* line 154: initializeModule returns
Leave(c) ==
    /\ At(c, "leave")
    /\ calls' = [calls EXCEPT ![c].stack = Pop(@), ![c].pc = "ret"]
    /\ UNCHANGED <<modules, moduleKeys, initialized, lifecycleHooks, result>>

\* lines 150-153: the catch block tags the error and rethrows it
Catch(c) ==
    /\ At(c, "catch")
    /\ calls' = [calls EXCEPT ![c].err = TagError(@, Frame(c).name), ![c].pc = "throw"]
    /\ UNCHANGED <<modules, moduleKeys, initialized, lifecycleHooks, result>>

(***************************************************************************)
(* shutdownModules (lines 216-242).                                        *)
(***************************************************************************)
\* lines 216-218: fire beforeShutdown
shutdownModules(c) ==
    /\ FreeSlot(c)
    /\ calls' = [calls EXCEPT ![c] =
          Trigger([FreshCall EXCEPT !.kind = "shutdown", !.status = "active"],
                  "beforeShutdown", "snapshot")]
    /\ result' = NoResult
    /\ UNCHANGED <<modules, moduleKeys, initialized, lifecycleHooks>>

\* a shutdownModules that walks the modules in the order they were initialized
ShutdownSnapshotForward(c) ==
    /\ At(c, "snapshot")
    /\ calls' = [calls EXCEPT ![c].moduleNames = Reverse(initialized),
                              ![c].i = Len(initialized), ![c].pc = "sdLoop"]
    /\ UNCHANGED <<modules, moduleKeys, initialized, lifecycleHooks, result>>

\* line 221: Array.from(initialized)
ShutdownSnapshot(c) ==
    /\ At(c, "snapshot")
    /\ calls' = [calls EXCEPT ![c].moduleNames = initialized, ![c].i = Len(initialized),
                              ![c].pc = "sdLoop"]
    /\ UNCHANGED <<modules, moduleKeys, initialized, lifecycleHooks, result>>

\* lines 223-229: the modules from the last one back; shutdown is invoked and awaited
ShutdownNext(c) ==
    /\ At(c, "sdLoop")
    /\ calls[c].i >= 1
    /\ LET name == calls[c].moduleNames[calls[c].i] IN
       calls' = [calls EXCEPT ![c] =
          IF modules[name].shutdown
            THEN [@ EXCEPT !.trace = Append(@, Ev("shutdown", name, 0)), !.pc = "sdAwait"]
          ELSE [@ EXCEPT !.i = @ - 1]]
    /\ UNCHANGED <<modules, moduleKeys, initialized, lifecycleHooks, result>>

\* a shutdownModules without the try block of lines 228-233
ShutdownSettledFailFast(c, outcome) ==
    /\ At(c, "sdAwait")
    /\ LET name == calls[c].moduleNames[calls[c].i] IN
       calls' = [calls EXCEPT ![c] =
          IF outcome = "ok"
            THEN [@ EXCEPT !.i = @ - 1, !.pc = "sdLoop",
                           !.trace = Append(@, Ev("shutdownLogged", name, 0))]
          ELSE [@ EXCEPT !.err = Error("shutdown", name, outcome = "error"),
                         !.thrown = Error("shutdown", name, outcome = "error"),
                         !.trace = Append(@, Ev("shutdownError", name, 0)),
                         !.pc = "throw"]]
    /\ UNCHANGED <<modules, moduleKeys, initialized, lifecycleHooks, result>>

\* lines 229-233: the promise of shutdown settles; line 230 logs the shutdown, or
\* the catch block of lines 231-233 logs the error and the loop goes on
ShutdownSettled(c, outcome) ==
    /\ At(c, "sdAwait")
    /\ LET name == calls[c].moduleNames[calls[c].i] IN
       calls' = [calls EXCEPT ![c].i = @ - 1, ![c].pc = "sdLoop",
                   ![c].trace = Append(@, Ev(IF outcome = "ok" THEN "shutdownLogged"
                                             ELSE "shutdownError", name, 0))]
    /\ UNCHANGED <<modules, moduleKeys, initialized, lifecycleHooks, result>>

\* a shutdownModules that unregisters the modules as well
ShutdownClearUnregisters(c) ==
    /\ At(c, "sdLoop")
    /\ calls[c].i = 0
    /\ initialized' = << >>
    /\ modules' = << >>
    /\ moduleKeys' = << >>
    /\ calls' = [calls EXCEPT ![c] = Trigger(@, "afterShutdown", "finish")]
    /\ UNCHANGED <<lifecycleHooks, result>>

\* a shutdownModules that leaves the Initialized Set as it is
ShutdownWithoutClear(c) ==
    /\ At(c, "sdLoop")
    /\ calls[c].i = 0
    /\ calls' = [calls EXCEPT ![c] = Trigger(@, "afterShutdown", "finish")]
    /\ UNCHANGED <<modules, moduleKeys, initialized, lifecycleHooks, result>>

\* lines 238-241: clear the Initialized Set, fire afterShutdown
ShutdownClear(c) ==
    /\ At(c, "sdLoop")
    /\ calls[c].i = 0
    /\ initialized' = << >>
    /\ calls' = [calls EXCEPT ![c] = Trigger(@, "afterShutdown", "finish")]
    /\ UNCHANGED <<modules, moduleKeys, lifecycleHooks, result>>

(***************************************************************************)
(* The simple module system (lines 244-348): no hooks, no validation, no   *)
(* clearing of the Initialized Set, no catch block.  Its first             *)
(* initializeModules call over the registry, every callback returning, is  *)
(* computed as a function: the Initialized Set, the services of the        *)
(* context and the callbacks invoked, in order.                            *)
(***************************************************************************)
SimpleFresh == [initialized |-> << >>, services |-> << >>, trace |-> << >>, failed |-> FALSE]

\* a simple initializeModule that mounts the routes before it calls initialize
SimpleBodyRoutesFirst(st, name, app) ==
    LET module == modules[name]
        t1 == IF module.routes /\ app THEN Append(st.trace, Ev("routes", name, 0))
              ELSE st.trace
        t2 == IF module.initialize THEN Append(t1, Ev("initialize", name, 0)) ELSE t1
    IN [st EXCEPT !.trace = Append(t2, Ev("add", name, 0)),
                  !.services = Publish(@, name, module),
                  !.initialized = Add(@, name)]

\* lines 301-318: initialize, routes, services, initialized.add
SimpleBody(st, name, app) ==
    LET module == modules[name]
        t1 == IF module.initialize THEN Append(st.trace, Ev("initialize", name, 0))
              ELSE st.trace
        t2 == IF module.routes /\ app THEN Append(t1, Ev("routes", name, 0)) ELSE t1
    IN [st EXCEPT !.trace = Append(t2, Ev("add", name, 0)),
                  !.services = Publish(@, name, module),
                  !.initialized = Add(@, name)]

\* lines 283-319; depth is the room left on the call stack
RECURSIVE SimpleInitializeModule(_, _, _, _), SimpleDependencies(_, _, _, _, _)
SimpleInitializeModule(name, st, app, depth) ==
    IF st.failed \/ Has(st.initialized, name) THEN st
    ELSE IF ~Registered(name) \/ depth = 0 THEN [st EXCEPT !.failed = TRUE]
    ELSE LET after == SimpleDependencies(name, 1, st, app, depth - 1)
         IN IF after.failed THEN after ELSE SimpleBody(after, name, app)

\* lines 295-299: the dependencies in declared order, each awaited
SimpleDependencies(name, di, st, app, depth) ==
    IF st.failed \/ di > Len(modules[name].dependencies) THEN st
    ELSE SimpleDependencies(name, di + 1,
            SimpleInitializeModule(modules[name].dependencies[di], st, app, depth),
            app, depth)

\* lines 327-348: a new context, then the names of the registry in order
RECURSIVE SimpleLoop(_, _, _)
SimpleLoop(ki, st, app) ==
    IF st.failed \/ ki > Len(moduleKeys) THEN st
    ELSE SimpleLoop(ki + 1, SimpleInitializeModule(moduleKeys[ki], st, app, MaxDepth), app)

SimpleInitializeModules(app) == SimpleLoop(1, SimpleFresh, app)

(***************************************************************************)
(* The framework adapter (framework.js): one request through one route.    *)
(***************************************************************************)
\* who calls the route's handler: Express, or the Express-like layer of
\* createFastifyApp
Layers == {"express", "fastify"}

\* what the function of the route does once called: it resolves to undefined,
\* to a value, to a value JSON.stringify refuses, or it throws or rejects
FnResults == {Undefined, "value", "unserializable", "throws"}

\* a call made while the request is handled: who made it, of what, with what
Called(by, op, arg) == [by |-> by, op |-> op, arg |-> arg]

\* the calls of op made by one caller
CallsOf(ex, by, op) ==
    {i \in 1..Len(ex.log) : ex.log[i].by = by /\ ex.log[i].op = op}

\* res.json(data).  Lines 128-132: the res of wrapHandler hands data to
\* reply.send and has no headersSent; the res of Express stringifies data
\* first and has sent the headers when that succeeded
resJson(ex, by, data) ==
    IF ex.layer = "fastify"
    THEN [ex EXCEPT !.log = @ \o <<Called(by, "json", data), Called("res", "send", data)>>]
    ELSE [ex EXCEPT !.log = Append(@, Called(by, "json", data)),
                    !.headersSent = @ \/ data # "unserializable"]

\* a request arrives at a route: mounted on which layer, with the function
\* itself or with createHandler(fn) as its handler, and whether a middleware
\* before the route has responded already (lines 81-87, 144)
Request(layer, wrapped, writes, fn, headersSent) ==
    /\ exchange.pc \in {"idle", "done"}
    /\ layer = "fastify" => ~headersSent
    /\ exchange' = [NoExchange EXCEPT
                        !.pc = "fn", !.layer = layer, !.wrapped = wrapped,
                        !.writes = writes, !.fn = fn, !.headersSent = headersSent,
                        !.log = IF headersSent
                                THEN <<Called("earlier", "json", "earlier")>>
                                ELSE << >>]
    /\ UNCHANGED <<users, sessions, now, reply, issued>>

\* lines 134, 146: the function is called; it may write the response itself
\* before it returns or throws
CallFn ==
    /\ exchange.pc = "fn"
    /\ exchange' = [(IF exchange.writes THEN resJson(exchange, "fn", "own") ELSE exchange)
                        EXCEPT !.pc = "awaitFn"]
    /\ UNCHANGED <<users, sessions, now, reply, issued>>

\* where the handler's promise goes: line 134 awaits it, Express drops it
Settle(ex, settled, reason) ==
    [ex EXCEPT !.settled = settled, !.reason = reason,
               !.pc = IF ex.layer = "fastify" THEN "awaitHandler" ELSE "done"]

\* line 152: next(error); line 134 calls the handler with (req, res) only, so
\* under wrapHandler next is undefined and the call throws a TypeError
NextError(ex, error) ==
    IF ex.layer = "fastify"
    THEN Settle(ex, "rejected", "TypeError")
    ELSE Settle([ex EXCEPT !.log = Append(@, Called("createHandler", "next", error))],
                "resolved", "")

\* lines 144-154: the middleware of createHandler(fn) after fn has settled
createHandler ==
    /\ exchange.pc = "awaitFn"
    /\ exchange.wrapped
    /\ exchange' =
          IF exchange.fn = "throws" THEN NextError(exchange, "thrown")
          ELSE IF exchange.fn # Undefined /\ ~exchange.headersSent
          THEN LET written == resJson(exchange, "createHandler", exchange.fn)
               IN  IF exchange.layer = "express" /\ exchange.fn = "unserializable"
                   THEN NextError(written, "TypeError")
                   ELSE Settle(written, "resolved", "")
          ELSE Settle(exchange, "resolved", "")
    /\ UNCHANGED <<users, sessions, now, reply, issued>>

\* lines 81-87: the function itself is the handler of the route; what it
\* returns stays in its promise
routeHandler ==
    /\ exchange.pc = "awaitFn"
    /\ ~exchange.wrapped
    /\ exchange' = IF exchange.fn = "throws"
                   THEN Settle(exchange, "rejected", "thrown")
                   ELSE Settle(exchange, "resolved", "")
    /\ UNCHANGED <<users, sessions, now, reply, issued>>

\* lines 119-135: the handler wrapHandler gives Fastify returns after its
\* await, with nothing, or rejects as the handler did
wrapHandler ==
    /\ exchange.pc = "awaitHandler"
    /\ exchange' = [exchange EXCEPT !.pc = "done"]
    /\ UNCHANGED <<users, sessions, now, reply, issued>>

(***************************************************************************)
(* The auth module (modules/auth/index.js): users, sessions and the clock. *)
(***************************************************************************)
\* what generateId gives: ids of users, ids of sessions (the tokens)
UserIds == {"u1", "u2"}
Tokens == {"t1", "t2"}
Usernames == {"admin", "bob"}
Passwords == {"admin123", "pw"}
\* the passwords the users who register choose
Chosen == {"pw"}
Roles == {"admin", "user"}

\* line 63: the 24 hours a session lasts, in ticks of the clock
SessionTtl == 1

\* the authorization header of a request, split at the spaces: none, a
\* bearer token, two spaces after the scheme
Headers ==
    {<< >>, <<"Bearer", "", "t1">>} \cup {<<"Bearer", t>> : t \in Tokens}

\* lines 82, 93: req.headers.authorization?.split(' ')[1]
bearer(header) == IF Len(header) >= 2 THEN header[2] ELSE Undefined

\* the tokens a caller of the services passes
TokenArgs == Tokens \cup {Undefined, ""}

\* Map.delete(key)
Delete(map, key) == [k \in DOMAIN map \ {key} |-> map[k]]

\* Map.set(key, value)
Set(map, key, value) == [k \in DOMAIN map \cup {key} |-> IF k = key THEN value ELSE map[k]]

\* lines 49, 132: the user of that name; ids are the keys, and a name is
\* given to one user only (line 132), so the order of the Map does not matter
Named(username) == {id \in DOMAIN users : users[id].username = username}

Reply(op, token, tag, user) == [op |-> op, token |-> token, tag |-> tag, user |-> user]

\* lines 28-39: initialize adds the admin when there is no user
authInitialize(adminId) ==
    /\ users' = IF users = << >>
                THEN Set(users, adminId,
                         [username |-> "admin", password |-> "admin123", roles |-> {"admin"}])
                ELSE users
    /\ reply' = Reply("initialize", Undefined, "ok", "")
    /\ UNCHANGED <<exchange, sessions, now, issued>>

\* lines 45-78: POST /api/auth/login
login(username, password, sessionId) ==
    LET found == Named(username)
        user == CHOOSE id \in found : TRUE
    IN  IF found = {} \/ users[user].password # password
        THEN /\ reply' = Reply("login", Undefined, "401", "")
             /\ UNCHANGED <<exchange, users, sessions, now, issued>>
        ELSE /\ sessions' = Set(sessions, sessionId,
                                [userId |-> user, expiresAt |-> now + SessionTtl])
             /\ issued' = Set(issued, sessionId,
                              [userId |-> user, expiresAt |-> now + SessionTtl,
                               loggedOut |-> FALSE])
             /\ reply' = Reply("login", sessionId, "ok", user)
             /\ UNCHANGED <<exchange, users, now>>

\* a logout that answers without touching the sessions
logoutKeepingSession(header) ==
    /\ reply' = Reply("logout", bearer(header), "ok", "")
    /\ issued' = IF bearer(header) \in DOMAIN issued
                 THEN [issued EXCEPT ![bearer(header)].loggedOut = TRUE]
                 ELSE issued
    /\ UNCHANGED <<exchange, users, sessions, now>>

\* lines 81-89: POST /api/auth/logout
logout(header) ==
    LET token == bearer(header)
    IN  /\ sessions' = IF Truthy(token) /\ token \in DOMAIN sessions
                       THEN Delete(sessions, token)
                       ELSE sessions
        /\ issued' = IF token \in DOMAIN issued
                     THEN [issued EXCEPT ![token].loggedOut = TRUE]
                     ELSE issued
        /\ reply' = Reply("logout", token, "ok", "")
        /\ UNCHANGED <<exchange, users, now>>

\* lines 92-125: GET /api/auth/me; the tag is the statusCode of the error
me(header) ==
    LET token == bearer(header)
    IN  /\ IF ~Truthy(token) \/ token \notin DOMAIN sessions
           THEN reply' = Reply("me", token, "401", "") /\ sessions' = sessions
           ELSE IF sessions[token].expiresAt < now
           THEN reply' = Reply("me", token, "401", "") /\ sessions' = Delete(sessions, token)
           ELSE IF sessions[token].userId \notin DOMAIN users
           THEN reply' = Reply("me", token, "404", "") /\ sessions' = Delete(sessions, token)
           ELSE reply' = Reply("me", token, "ok", sessions[token].userId)
                /\ sessions' = sessions
        /\ UNCHANGED <<exchange, users, now, issued>>

\* lines 128-155: POST /api/auth/register
register(username, password, userId) ==
    /\ IF Named(username) # {}
       THEN reply' = Reply("register", Undefined, "409", "") /\ users' = users
       ELSE /\ users' = Set(users, userId,
                            [username |-> username, password |-> password,
                             roles |-> {"user"}])
            /\ reply' = Reply("register", Undefined, "ok", userId)
    /\ UNCHANGED <<exchange, sessions, now, issued>>

\* an authenticate that does not look at expiresAt
authenticateForever(token) ==
    IF ~Truthy(token) \/ token \notin DOMAIN sessions
    THEN [user |-> "null", sessions |-> sessions]
    ELSE IF sessions[token].userId \notin DOMAIN users
    THEN [user |-> "null", sessions |-> Delete(sessions, token)]
    ELSE [user |-> sessions[token].userId, sessions |-> sessions]

\* lines 166-191: services.authenticate(token): the id of the user it
\* returns, or null, and the sessions it leaves
authenticate(token) ==
    IF ~Truthy(token) \/ token \notin DOMAIN sessions
    THEN [user |-> "null", sessions |-> sessions]
    ELSE IF sessions[token].expiresAt < now
    THEN [user |-> "null", sessions |-> Delete(sessions, token)]
    ELSE IF sessions[token].userId \notin DOMAIN users
    THEN [user |-> "null", sessions |-> Delete(sessions, token)]
    ELSE [user |-> sessions[token].userId, sessions |-> sessions]

\* a caller calls services.authenticate(token)
CallAuthenticate(token) ==
    LET returned == authenticate(token)
    IN  /\ sessions' = returned.sessions
        /\ reply' = IF returned.user = "null"
                    THEN Reply("authenticate", token, "null", "")
                    ELSE Reply("authenticate", token, "user", returned.user)
        /\ UNCHANGED <<exchange, users, now, issued>>

\* lines 200-208: services.hasRole(token, role)
hasRole(token, role) ==
    LET returned == authenticate(token)
    IN  /\ sessions' = returned.sessions
        /\ reply' = IF returned.user = "null" THEN Reply("hasRole", token, "false", "")
                    ELSE IF role \in users[returned.user].roles
                    THEN Reply("hasRole", token, "true", returned.user)
                    ELSE Reply("hasRole", token, "false", returned.user)
        /\ UNCHANGED <<exchange, users, now, issued>>

\* time passes: new Date() gives a later moment
Tick ==
    /\ now < MaxTime
    /\ now' = now + 1
    /\ UNCHANGED <<exchange, users, sessions, reply, issued>>

(***************************************************************************)
(* Specifications.                                                         *)
(***************************************************************************)
\* nothing was initialized or shut down yet: the application is being set up
Setup == \A c \in CallIds : calls[c].status = "unused"

\* one step of an initializeModules call in flight, lifecycle hooks apart
InitStep(c) ==
    \/ HooksDone(c)
    \/ LoopStart(c)
    \/ LoopNext(c)
    \/ Enter(c)
    \/ Dependencies(c)
    \/ Resume(c)
    \/ CallInitialize(c)
    \/ \E o \in Outcomes : InitializeSettled(c, o)
    \/ \E o \in Outcomes : MountRoutes(c, o)
    \/ PublishAndMark(c)
    \/ Leave(c)
    \/ Catch(c)
    \/ Reject(c)
    \/ Resolve(c)

\* one step of a shutdownModules call in flight
ShutdownStep(c) ==
    \/ ShutdownSnapshot(c)
    \/ ShutdownNext(c)
    \/ \E o \in Outcomes : ShutdownSettled(c, o)
    \/ ShutdownClear(c)

\* the invocation of a registered lifecycle callback and its settling
HookStep(c) ==
    \/ HookInvoke(c)
    \/ \E o \in Outcomes : HookSettle(c, o)

\* the caller awaits every call before it makes the next one
StartCall ==
    \/ \E c \in CallIds, app \in BOOLEAN : initializeModules(c, app)
    \/ \E c \in CallIds : shutdownModules(c)

\* Spec: an application that registers its modules (any of the catalogue, under
\* any names, in any order), registers no lifecycle hooks, and then initializes
\* and shuts down any number of times
Next ==
    \/ Setup /\ UNCHANGED <<callLog, snapshot, held, webVars>>
             /\ \E name \in Names \cup {EmptyName},
                   module \in ModuleDefs \cup {NotAnObject, MissingId} :
                     registerModule(name, module)
    \/ Idle /\ UNCHANGED <<callLog, snapshot, held, webVars>> /\ \E name \in Names \cup {Ghost} : getModule(name)
    \/ Idle /\ UNCHANGED <<callLog, snapshot, held, webVars>> /\ StartCall
    \/ UNCHANGED <<callLog, snapshot, held, webVars>> /\ \E c \in CallIds : InitStep(c) \/ ShutdownStep(c)

Spec == Init /\ [][Next]_vars

\* SpecHooks: an application of at most two modules that also registers
\* lifecycle hooks while it is set up
HookNames == {"a", "b"}
HookModuleDefs == {Catalogue[1], Catalogue[3], Catalogue[5]}

NextHooks ==
    \/ Setup /\ UNCHANGED <<callLog, snapshot, held, webVars>>
             /\ \E name \in HookNames, module \in HookModuleDefs :
                   registerModule(name, module)
    \/ Setup /\ UNCHANGED <<callLog, snapshot, held, webVars>>
             /\ \E event \in LifecycleEvents : registerLifecycleHook(event)
    \/ Idle /\ UNCHANGED <<callLog, snapshot, held, webVars>> /\ StartCall
    \/ UNCHANGED <<callLog, snapshot, held, webVars>>
          /\ \E c \in CallIds : InitStep(c) \/ ShutdownStep(c) \/ HookStep(c)

SpecHooks == Init /\ [][NextHooks]_vars

\* SpecLive: the same application, in which every awaited callback settles and
\* the continuation of every call in flight is run: a call that can take a step
\* eventually takes one
CallStep ==
    /\ UNCHANGED <<callLog, snapshot, held, webVars>>
    /\ \E c \in CallIds : InitStep(c) \/ ShutdownStep(c) \/ HookStep(c)

SpecLive == Init /\ [][NextHooks]_vars /\ WF_vars(CallStep)

\* SpecSequence: a caller that makes up to MaxLog calls one after the other,
\* each awaited before the next, over at most two modules, with lifecycle
\* hooks on the shutdown events; the caller remembers the calls it made
SequenceNames == {"a", "b"}
SequenceModuleDefs == {Catalogue[1], Catalogue[3]}
SequenceEvents == {"beforeShutdown", "afterShutdown"}

\* what the caller notes when it makes a call: the operation, and how the call
\* it made before this one had ended ("unused" when there was none)
LogEntry(kind, c) == [kind |-> kind, previous |-> calls[c].status]

NextSequence ==
    \/ Setup /\ UNCHANGED <<callLog, snapshot, held, webVars>>
             /\ \E name \in SequenceNames, module \in SequenceModuleDefs :
                   registerModule(name, module)
    \/ Setup /\ UNCHANGED <<callLog, snapshot, held, webVars>>
             /\ \E event \in SequenceEvents : registerLifecycleHook(event)
    \/ /\ Idle
       /\ Len(callLog) < MaxLog
       /\ \E c \in CallIds, app \in BOOLEAN :
             /\ initializeModules(c, app)
             /\ callLog' = Append(callLog, LogEntry("init", c))
             /\ UNCHANGED <<snapshot, held, webVars>>
    \/ /\ Idle
       /\ Len(callLog) < MaxLog
       /\ \E c \in CallIds :
             /\ shutdownModules(c)
             /\ callLog' = Append(callLog, LogEntry("shutdown", c))
             /\ UNCHANGED <<snapshot, held, webVars>>
    \/ UNCHANGED <<callLog, snapshot, held, webVars>>
          /\ \E c \in CallIds : InitStep(c) \/ ShutdownStep(c) \/ HookStep(c)

SpecSequence == Init /\ [][NextSequence]_vars

\* SpecCycle: an application of at most two modules that may depend on
\* themselves or on each other, initialized any number of times
MutualModule == ModuleDefinition(6, <<"b">>, TRUE, TRUE, TRUE, TRUE)
CycleNames == {"a", "b"}
CycleModuleDefs == {Catalogue[1], Catalogue[3], MutualModule}

NextCycle ==
    \/ Setup /\ UNCHANGED <<callLog, snapshot, held, webVars>>
             /\ \E name \in CycleNames, module \in CycleModuleDefs :
                   registerModule(name, module)
    \/ Idle /\ UNCHANGED <<callLog, snapshot, held, webVars>>
            /\ \E c \in CallIds, app \in BOOLEAN : initializeModules(c, app)
    \/ UNCHANGED <<callLog, snapshot, held, webVars>> /\ \E c \in CallIds : InitStep(c)

SpecCycle == Init /\ [][NextCycle]_vars

\* SpecRegistry: an application that uses the whole registry API at any time
\* between its calls: it registers up to two modules (while it is set up, also
\* with arguments that are not valid), looks
\* them up, lists them and alters the listing it was given, registers
\* afterShutdown hooks, initializes and shuts down
RegistryNames == {"a", "b"}
RegistryModuleDefs == {Catalogue[1], Catalogue[3]}
RegistryEvents == {"afterShutdown"}

NextRegistry ==
    \/ Idle /\ UNCHANGED <<callLog, snapshot, held, webVars>>
            /\ \E name \in RegistryNames, module \in RegistryModuleDefs :
                  registerModule(name, module)
    \/ Setup /\ UNCHANGED <<callLog, snapshot, held, webVars>>
             /\ \E name \in RegistryNames \cup {EmptyName, NotAString},
                   module \in RegistryModuleDefs \cup {NotAnObject, MissingId, MissingName} :
                     registerModule(name, module)
    \/ Idle /\ UNCHANGED <<callLog, snapshot, held, webVars>>
            /\ \E name \in RegistryNames \cup {Ghost} : getModule(name)
    \/ Idle /\ UNCHANGED <<callLog, held, webVars>> /\ getAllModules
    \/ Idle /\ UNCHANGED <<callLog, held, webVars>>
            /\ \E name \in RegistryNames, module \in RegistryModuleDefs :
                  SnapshotAssign(name, module)
    \/ Idle /\ UNCHANGED <<callLog, held, webVars>>
            /\ \E name \in RegistryNames : SnapshotDelete(name)
    \/ Setup /\ UNCHANGED <<callLog, snapshot, held, webVars>>
             /\ \E event \in RegistryEvents : registerLifecycleHook(event)
    \/ Idle /\ UNCHANGED <<callLog, snapshot, held, webVars>> /\ StartCall
    \/ UNCHANGED <<callLog, snapshot, held, webVars>>
          /\ \E c \in CallIds : InitStep(c) \/ ShutdownStep(c) \/ HookStep(c)

SpecRegistry == Init /\ [][NextRegistry]_vars

\* SpecContext: an application of one module that initializes up to MaxLog
\* times; the module in its initialize, and the caller afterwards, write the
\* state of the context of the call
ContextNames == {"a"}
ContextModuleDefs == {Catalogue[1]}

NextContext ==
    \/ Setup /\ UNCHANGED <<callLog, snapshot, held, webVars>>
             /\ \E name \in ContextNames, module \in ContextModuleDefs :
                   registerModule(name, module)
    \/ /\ Idle
       /\ Len(callLog) < MaxLog
       /\ \E c \in CallIds, app \in BOOLEAN :
             /\ initializeModules(c, app)
             /\ callLog' = Append(callLog, LogEntry("init", c))
             /\ UNCHANGED <<snapshot, held, webVars>>
    \/ UNCHANGED <<callLog, snapshot, held, webVars>> /\ \E c \in CallIds : InitStep(c)
    \/ UNCHANGED <<callLog, snapshot, webVars>>
          /\ \E c \in CallIds, key \in StateKeys, value \in StateValues :
                setState(c, key, value)

SpecContext == Init /\ [][NextContext]_vars

\* SpecKeptContext: the same application, whose caller keeps the context of
\* one call while later calls run, and writes to the kept context as well
KeptValues == {"null", "v"}

NextKeptContext ==
    \/ Setup /\ UNCHANGED <<callLog, snapshot, held, webVars>>
             /\ \E name \in ContextNames, module \in ContextModuleDefs :
                   registerModule(name, module)
    \/ /\ Idle
       /\ Len(callLog) < MaxLog
       /\ \E c \in CallIds, app \in BOOLEAN :
             /\ initializeModules(c, app)
             /\ callLog' = Append(callLog, LogEntry("init", c))
             /\ UNCHANGED <<snapshot, held, webVars>>
    \/ UNCHANGED <<callLog, snapshot, held, webVars>> /\ \E c \in CallIds : InitStep(c)
    \/ UNCHANGED <<callLog, snapshot, webVars>>
          /\ \E ctx \in {0} \cup CallIds, key \in StateKeys, value \in KeptValues :
                setState(ctx, key, value)
    \/ UNCHANGED <<callLog, snapshot, webVars>> /\ \E c \in CallIds : Keep(c)

SpecKeptContext == Init /\ [][NextKeptContext]_vars

\* SpecPartial: a caller that makes up to MaxLog calls one after the other
\* over at most two modules, with lifecycle hooks on afterInit; with each call
\* it notes how the call before ended and the module whose callback failed in
\* it, and the Initialized Set as the new call finds it
PartialNames == {"a", "b"}
PartialModuleDefs == {Catalogue[1], Catalogue[3]}
PartialEvents == {"afterInit"}

PartialEntry(kind, c) ==
    [kind |-> kind, previous |-> calls[c].status,
     failed |-> calls[c].thrown.at, initialized |-> initialized]

NextPartial ==
    \/ Setup /\ UNCHANGED <<callLog, snapshot, held, webVars>>
             /\ \E name \in PartialNames, module \in PartialModuleDefs :
                   registerModule(name, module)
    \/ Setup /\ UNCHANGED <<callLog, snapshot, held, webVars>>
             /\ \E event \in PartialEvents : registerLifecycleHook(event)
    \/ /\ Idle
       /\ Len(callLog) < MaxLog
       /\ \E c \in CallIds, app \in BOOLEAN :
             /\ initializeModules(c, app)
             /\ callLog' = Append(callLog, PartialEntry("init", c))
             /\ UNCHANGED <<snapshot, held, webVars>>
    \/ /\ Idle
       /\ Len(callLog) < MaxLog
       /\ \E c \in CallIds :
             /\ shutdownModules(c)
             /\ callLog' = Append(callLog, PartialEntry("shutdown", c))
             /\ UNCHANGED <<snapshot, held, webVars>>
    \/ UNCHANGED <<callLog, snapshot, held, webVars>>
          /\ \E c \in CallIds : InitStep(c) \/ ShutdownStep(c) \/ HookStep(c)

SpecPartial == Init /\ [][NextPartial]_vars

\* SpecConcurrent: an application of at most two modules whose caller does not
\* await a call before it makes the next one, so that up to MaxCalls calls are
\* in flight, each with the routing capability.  JavaScript runs a continuation
\* to its next await before any other code: a call interleaves with the others
\* only where it is suspended.
ConcurrentNames == {"a", "b"}
ConcurrentModuleDefs == {Catalogue[1], Catalogue[3]}
ConcurrentEvents == {"beforeShutdown"}

\* the places of a call between two awaits: synchronous code is running
SyncPcs == {"hooks", "top", "enter", "deps", "routes", "publish", "catch", "sdLoop"}
Running(c) == Active(c) /\ calls[c].pc \in SyncPcs

NextConcurrent ==
    \/ Setup /\ UNCHANGED <<callLog, snapshot, held, webVars>>
             /\ \E name \in ConcurrentNames, module \in ConcurrentModuleDefs :
                   registerModule(name, module)
    \/ Setup /\ UNCHANGED <<callLog, snapshot, held, webVars>>
             /\ \E event \in ConcurrentEvents : registerLifecycleHook(event)
    \/ /\ \A d \in CallIds : ~Running(d)
       /\ UNCHANGED <<callLog, snapshot, held, webVars>>
       /\ \E c \in CallIds : initializeModules(c, TRUE)
    \/ /\ \A d \in CallIds : ~Running(d)
       /\ UNCHANGED <<callLog, snapshot, held, webVars>>
       /\ \E c \in CallIds : shutdownModules(c)
    \/ UNCHANGED <<callLog, snapshot, held, webVars>>
          /\ \E c \in CallIds :
                /\ \A d \in CallIds \ {c} : ~Running(d)
                /\ InitStep(c) \/ ShutdownStep(c) \/ HookStep(c)

SpecConcurrent == Init /\ [][NextConcurrent]_vars

\* requests through the routes of the adapter, one after the other
NextFramework ==
    /\ UNCHANGED coreVars
    /\ \/ \E layer \in Layers, wrapped \in BOOLEAN, writes \in BOOLEAN,
             fn \in FnResults, headersSent \in BOOLEAN :
               Request(layer, wrapped, writes, fn, headersSent)
       \/ CallFn
       \/ createHandler
       \/ routeHandler
       \/ wrapHandler

SpecFramework == Init /\ [][NextFramework]_vars

\* the auth module in use: its routes and services called in any order
\* while time passes
NextAuth ==
    /\ UNCHANGED coreVars
    /\ \/ \E adminId \in UserIds : authInitialize(adminId)
       \/ \E username \in Usernames, password \in Passwords, sessionId \in Tokens :
             login(username, password, sessionId)
       \/ \E header \in Headers : logout(header)
       \/ \E header \in Headers : me(header)
       \/ \E username \in Usernames, password \in Chosen, userId \in UserIds :
             register(username, password, userId)
       \/ \E token \in TokenArgs : CallAuthenticate(token)
       \/ \E token \in TokenArgs, role \in Roles : hasRole(token, role)
       \/ Tick

SpecAuth == Init /\ [][NextAuth]_vars

(***************************************************************************)
(* Vocabulary of the properties.                                           *)
(***************************************************************************)
\* the declared dependencies of a registered module, as a set
DepSet(name) == {modules[name].dependencies[k] : k \in 1..Len(modules[name].dependencies)}

\* the position of a name in a sequence that holds it
Pos(seq, name) == CHOOSE k \in 1..Len(seq) : seq[k] = name

\* the calls of initializeModules, and those that have settled
InitCalls == {c \in CallIds : calls[c].kind = "init"}
Settled(c) == calls[c].status \in {"resolved", "rejected"}

\* the registered modules M depends on, directly or not, and M itself
RECURSIVE Closure(_, _)
Closure(S, fuel) ==
    LET T == S \cup UNION {DepSet(n) \cap DOMAIN modules : n \in S}
    IN IF fuel = 0 \/ T = S THEN S ELSE Closure(T, fuel - 1)
TransDeps(name) == Closure({name}, Cardinality(DOMAIN modules))

\* no registered module depends on itself, directly or not
Acyclic ==
    \A n \in DOMAIN modules :
        n \notin Closure(DepSet(n) \cap DOMAIN modules, Cardinality(DOMAIN modules))

\* the module depends on itself, directly or through other registered modules
OnCycle(name) ==
    name \in Closure(DepSet(name) \cap DOMAIN modules, Cardinality(DOMAIN modules))

\* every declared dependency is registered
AllDependenciesRegistered == \A n \in DOMAIN modules : DepSet(n) \subseteq DOMAIN modules

\* some declared dependency of the module is not registered
HasUnregisteredDependency(name) == ~(DepSet(name) \subseteq DOMAIN modules)

\* the depth-first post-order of the registry: names in registration order,
\* the dependencies of each in declared order, every module once
RECURSIVE Visit(_, _), VisitAll(_, _, _)
Visit(name, done) ==
    IF Has(done, name) THEN done
    ELSE Append(VisitAll(modules[name].dependencies, 1, done), name)
VisitAll(names, k, done) ==
    IF k > Len(names) THEN done ELSE VisitAll(names, k + 1, Visit(names[k], done))
PostOrder == VisitAll(moduleKeys, 1, << >>)

\* the names a call added to the Initialized Set, in the order it added them
RECURSIVE Added(_)
Added(trace) ==
    IF trace = << >> THEN << >>
    ELSE IF Head(trace).op = "add" THEN <<Head(trace).name>> \o Added(Tail(trace))
    ELSE Added(Tail(trace))

\* the modules whose callback `op` a call invoked, in the order it invoked them
RECURSIVE OpNames(_, _)
OpNames(trace, op) ==
    IF trace = << >> THEN << >>
    ELSE IF Head(trace).op = op THEN <<Head(trace).name>> \o OpNames(Tail(trace), op)
    ELSE OpNames(Tail(trace), op)

\* the invocations of initialize and routes and the additions to the
\* Initialized Set in the history of a call
ModuleSteps(trace) == SelectSeq(trace, LAMBDA e : e.op \in {"initialize", "routes", "add"})

\* the calls of shutdownModules
ShutdownCalls == {c \in CallIds : calls[c].kind = "shutdown"}

\* of a sequence of registered names, those whose module has a shutdown function
HavingShutdown(names) == SelectSeq(names, LAMBDA n : modules[n].shutdown)

\* the place of a step in the block of lines 128-149
StepRank(op) ==
    CASE op = "beforeInit" -> 1
      [] op = "initialize" -> 2
      [] op = "routes"     -> 3
      [] op = "add"        -> 4
      [] op = "afterInit"  -> 5
      [] OTHER             -> 0

\* the call invoked the callback `op` of the module
Invoked(c, op, name) ==
    \E k \in 1..Len(calls[c].trace) : calls[c].trace[k].op = op /\ calls[c].trace[k].name = name

(***************************************************************************)
(* C1.  In an initializeModules call, whenever the initialize of a module  *)
(* B is invoked, every registered module A that B lists in its             *)
(* dependencies was added to the Initialized Set before that invocation,   *)
(* and is in the set while B's initialize runs.                            *)
(***************************************************************************)
C1_DependenciesInitializedFirst ==
    \A c \in InitCalls :
        /\ \A k \in 1..Len(calls[c].trace) :
              calls[c].trace[k].op = "initialize" =>
                 \A A \in DepSet(calls[c].trace[k].name) \cap DOMAIN modules :
                    \E j \in 1..(k - 1) :
                       calls[c].trace[j].op = "add" /\ calls[c].trace[j].name = A
        /\ At(c, "initAwait") =>
              \A A \in DepSet(Frame(c).name) \cap DOMAIN modules : Has(initialized, A)

\* the initialize of a module with two registered dependencies is running
C1_Witness ==
    \E c \in InitCalls :
        /\ At(c, "initAwait")
        /\ Cardinality(DepSet(Frame(c).name) \cap DOMAIN modules) = 2

(***************************************************************************)
(* C2.  Within one initializeModules call the initialize function of a     *)
(* module is invoked at most once, also when the module is a dependency of *)
(* several modules and is visited by the loop over the registry as well.   *)
(***************************************************************************)
C2_InitializeAtMostOnce ==
    \A c \in InitCalls :
        \A j, k \in 1..Len(calls[c].trace) :
            (/\ j < k
             /\ calls[c].trace[j].op = "initialize"
             /\ calls[c].trace[k].op = "initialize")
            => calls[c].trace[j].name # calls[c].trace[k].name

\* a call resolved in which a module with an initialize function is a dependency
\* of two other modules and is the last name of the registry: it was initialized
\* as a dependency, then met again twice
C2_Witness ==
    \E c \in InitCalls :
        /\ calls[c].status = "resolved"
        /\ \E A \in DOMAIN modules :
              /\ modules[A].initialize
              /\ moduleKeys[Len(moduleKeys)] = A
              /\ Cardinality({B \in DOMAIN modules \ {A} : A \in DepSet(B)}) = 2
              /\ Invoked(c, "initialize", A)

(***************************************************************************)
(* C3.  Whenever the initialize of a module B is invoked with the context, *)
(* context.getService(A) is the services object of A, not undefined, for   *)
(* every dependency A of B that declares services.                         *)
(***************************************************************************)
C3_DependencyServicesPublished ==
    \A c \in InitCalls :
        At(c, "initAwait") =>
            \A A \in DepSet(Frame(c).name) \cap DOMAIN modules :
                modules[A].services # 0 => getService(c, A, Undefined) = modules[A].services

\* the initialize of a module runs whose dependency declares services
C3_Witness ==
    \E c \in InitCalls :
        /\ At(c, "initAwait")
        /\ \E A \in DepSet(Frame(c).name) \cap DOMAIN modules : modules[A].services # 0

C5_InitializedOrderConsistent ==
    /\ \A j, k \in 1..Len(initialized) : j # k => initialized[j] # initialized[k]
    /\ \A k \in 1..Len(initialized) :
          /\ initialized[k] \in DOMAIN modules
          /\ \A A \in DepSet(initialized[k]) :
                \E j \in 1..(k - 1) : initialized[j] = A

\* an initializeModules call rejected and left a module with dependencies in the set
C5_Witness ==
    \E c \in InitCalls :
        /\ calls[c].status = "rejected"
        /\ \E k \in 1..Len(initialized) : DepSet(initialized[k]) # {}

(***************************************************************************)
(* C6.  registerModule with a valid definition and a name that is         *)
(* registered changes nothing and returns the definition registered first; *)
(* getModule returns that definition; no step replaces a registered        *)
(* definition.                                                             *)
(***************************************************************************)
C6_FirstRegistrationWins ==
    [][\A n \in DOMAIN modules :
          /\ n \in DOMAIN modules' /\ modules'[n] = modules[n]
          /\ (/\ result'.op = "registerModule" /\ result'.name = n
              /\ result'.arg \in {d.id : d \in ModuleDefs}) =>
                /\ modules' = modules /\ moduleKeys' = moduleKeys
                /\ result'.tag = "return" /\ result'.id = modules[n].id
          /\ (result'.op = "getModule" /\ result'.name = n) =>
                result'.id = modules[n].id]_vars

\* registerModule was given another definition for a registered name and
\* returned the one registered first
C6_Witness ==
    /\ result.op = "registerModule"
    /\ result.tag = "return"
    /\ result.name \in DOMAIN modules
    /\ result.arg # result.id
    /\ modules[result.name].id = result.id

C9_RejectsWithSameError ==
    \A c \in InitCalls :
        (Settled(c) /\ calls[c].thrown.kind = "initialize") =>
            /\ calls[c].status = "rejected"
            /\ calls[c].err.kind = "initialize"
            /\ calls[c].err.at = calls[c].thrown.at
            /\ calls[c].err.obj = calls[c].thrown.obj
            /\ calls[c].trace[Len(calls[c].trace)] = Ev("initialize", calls[c].thrown.at, 0)
            /\ ~Invoked(c, "afterAllInit", "")

\* what does hold of the code: the same for every initialize that throws an object
C9_ErrorObjectRejectsUnchanged ==
    \A c \in InitCalls :
        (Settled(c) /\ calls[c].thrown.kind = "initialize") =>
            /\ calls[c].status = "rejected"
            /\ calls[c].trace[Len(calls[c].trace)] = Ev("initialize", calls[c].thrown.at, 0)
            /\ ~Invoked(c, "afterAllInit", "")
            /\ calls[c].thrown.obj =>
                  /\ calls[c].err.kind = "initialize"
                  /\ calls[c].err.at = calls[c].thrown.at
                  /\ calls[c].err.obj

(***************************************************************************)
(* C10.  When a module's initialize fails, the error that reaches the      *)
(* caller of initializeModules carries the name of that module in          *)
(* error.module, also when the module was being initialized as a           *)
(* dependency of another.                                                  *)
(***************************************************************************)
C10_ErrorCarriesOriginatingModule ==
    \A c \in InitCalls :
        (calls[c].status = "rejected" /\ calls[c].thrown.kind = "initialize") =>
            calls[c].err.module = calls[c].thrown.at

\* what does hold of the code: an Error object is tagged with the module whose
\* initialize threw it, whatever module was being visited
C10_ErrorObjectCarriesOriginatingModule ==
    \A c \in InitCalls :
        (calls[c].status = "rejected" /\ calls[c].thrown.kind = "initialize"
            /\ calls[c].thrown.obj) =>
            calls[c].err.module = calls[c].thrown.at

(***************************************************************************)
(* C11.  When the initialize of a module F failed and initializeModules    *)
(* aborts, nothing is rolled back: the Initialized Set is exactly what the *)
(* call added before the failure, each of those modules that declares      *)
(* services still has them in context.services, the call invoked no        *)
(* shutdown; F is not in the Initialized Set, has no entry in              *)
(* context.services and its routes function was not invoked.               *)
(***************************************************************************)
C11_NoRollbackOnFailure ==
    \A c \in InitCalls :
        (/\ calls[c].thrown.kind = "initialize"
         /\ calls[c].status = "rejected" \/ At(c, "catch") \/ At(c, "throw")) =>
            LET F == calls[c].thrown.at IN
            /\ initialized = Added(calls[c].trace)
            /\ \A k \in 1..Len(initialized) :
                  modules[initialized[k]].services # 0 =>
                     getService(c, initialized[k], Undefined) = modules[initialized[k]].services
            /\ \A k \in 1..Len(calls[c].trace) :
                  calls[c].trace[k].op \notin {"shutdown", "shutdownLogged", "shutdownError"}
            /\ ~Has(initialized, F)
            /\ F \notin DOMAIN calls[c].services
            /\ ~Invoked(c, "routes", F)

\* the call was rejected by the initialize of a module that has routes and
\* services, with a routing capability present, after two modules were
\* initialized of which one published services
C11_Witness ==
    \E c \in InitCalls :
        /\ calls[c].status = "rejected"
        /\ calls[c].thrown.kind = "initialize"
        /\ calls[c].app
        /\ modules[calls[c].thrown.at].routes
        /\ modules[calls[c].thrown.at].services # 0
        /\ Len(initialized) = 2
        /\ DOMAIN calls[c].services # {}

(***************************************************************************)
(* C12.  When initializeModules is called again after an earlier call,     *)
(* with no shutdownModules in between, the Initialized Set holds only what *)
(* the new call added, and a call that resolves has invoked the initialize *)
(* of every registered module that has one exactly once: nothing of the    *)
(* earlier call is reused.                                                  *)
(***************************************************************************)
C12_InitializeOncePerCall ==
    \A c \in InitCalls :
        /\ initialized = Added(calls[c].trace)
        /\ calls[c].status = "resolved" =>
              \A n \in DOMAIN modules :
                 modules[n].initialize =>
                    Cardinality({k \in 1..Len(calls[c].trace) :
                                    calls[c].trace[k] = Ev("initialize", n, 0)}) = 1

\* the caller's last two calls were initializeModules, the first resolved, and
\* the second resolved too over two modules that both have an initialize
C12_Witness ==
    \E c \in InitCalls :
        /\ calls[c].status = "resolved"
        /\ Len(callLog) >= 2
        /\ callLog[Len(callLog) - 1].kind = "init"
        /\ callLog[Len(callLog)] = [kind |-> "init", previous |-> "resolved"]
        /\ Cardinality({n \in DOMAIN modules : modules[n].initialize}) = 2

(***************************************************************************)
(* C13.  shutdownModules walks the Initialized Set from the module added   *)
(* last to the module added first: the shutdown functions it has invoked   *)
(* so far are those of the modules it has passed, in reverse order of      *)
(* their addition, modules without a shutdown function left out; and each  *)
(* shutdown has settled before the next one is invoked.                    *)
(***************************************************************************)
C13_ShutdownInReverseOrder ==
    \A c \in ShutdownCalls :
        LET names  == calls[c].moduleNames
            from   == IF calls[c].pc = "sdAwait" THEN calls[c].i ELSE calls[c].i + 1
            passed == SubSeq(names, from, Len(names))
            trace  == calls[c].trace
        IN /\ (At(c, "sdLoop") \/ At(c, "sdAwait")) => names = initialized
           /\ OpNames(trace, "shutdown") = Reverse(HavingShutdown(passed))
           /\ \A k \in 1..Len(trace) :
                 trace[k].op = "shutdown" =>
                    IF k = Len(trace) THEN At(c, "sdAwait")
                    ELSE /\ trace[k + 1].op \in {"shutdownLogged", "shutdownError"}
                         /\ trace[k + 1].name = trace[k].name

\* three modules were initialized in the order a, b, c, of which b has no
\* shutdown function; the call resolved after the shutdown of c, then of a
C13_Witness ==
    \E c \in ShutdownCalls :
        /\ calls[c].status = "resolved"
        /\ calls[c].moduleNames = <<"a", "b", "c">>
        /\ ~modules["b"].shutdown
        /\ OpNames(calls[c].trace, "shutdown") = <<"c", "a">>

(***************************************************************************)
(* C14.  A shutdown function that throws or rejects does not stop          *)
(* shutdownModules: the failure never leaves the loop; once the call has   *)
(* settled, the shutdown of every module of the Initialized Set that has   *)
(* one was invoked, in reverse order, the set is empty and the             *)
(* afterShutdown hooks were fired; the call rejects only if an             *)
(* afterShutdown hook fails, never with the error of the module.           *)
(***************************************************************************)
C14_ShutdownFailureIsolated ==
    \A c \in ShutdownCalls :
        LET trace == calls[c].trace IN
        (\E k \in 1..Len(trace) : trace[k].op = "shutdownError") =>
            /\ calls[c].thrown.kind \in {"none", "hook"}
            /\ At(c, "throw") => calls[c].hev = "afterShutdown"
            /\ Settled(c) =>
                  /\ OpNames(trace, "shutdown") = Reverse(HavingShutdown(calls[c].moduleNames))
                  /\ initialized = << >>
                  /\ lifecycleHooks["afterShutdown"] # << >> =>
                        trace[Len(trace)].op = "afterShutdown"
                  /\ calls[c].status = "resolved" =>
                        Len(OpNames(trace, "afterShutdown")) = Len(lifecycleHooks["afterShutdown"])
                  /\ calls[c].status = "rejected" =>
                        /\ calls[c].thrown.kind = "hook"
                        /\ calls[c].hev = "afterShutdown"

\* a and b were initialized in that order; the shutdown of b failed, the shutdown
\* of a was invoked after it, an afterShutdown hook fired and the call resolved
C14_Witness ==
    \E c \in ShutdownCalls :
        /\ calls[c].status = "resolved"
        /\ calls[c].moduleNames = <<"a", "b">>
        /\ \E k \in 1..Len(calls[c].trace) :
              /\ calls[c].trace[k] = Ev("shutdownError", "b", 0)
              /\ calls[c].trace[k + 1] = Ev("shutdown", "a", 0)
        /\ calls[c].trace[Len(calls[c].trace)].op = "afterShutdown"

(***************************************************************************)
(* C15.  Within one initializeModules call the steps of a module (its      *)
(* beforeInit hooks, initialize, routes, addition to the set, afterInit    *)
(* hooks) form one contiguous block of the call's history: no step of      *)
(* another module lies between two steps of the same module.  While an     *)
(* initialize or a lifecycle hook is awaited, it is the last step the call *)
(* has started.                                                            *)
(***************************************************************************)
C15_StrictlySequential ==
    \A c \in InitCalls :
        LET trace == calls[c].trace IN
        /\ \A j, l \in 1..Len(trace) :
              (j < l /\ trace[j].name # "" /\ trace[j].name = trace[l].name) =>
                 \A k \in j..l : trace[k].name = trace[j].name
        /\ At(c, "initAwait") => trace[Len(trace)] = Ev("initialize", Frame(c).name, 0)
        /\ At(c, "hookAwait") =>
              /\ trace[Len(trace)].op = calls[c].hev
              /\ trace[Len(trace)].name = HookModule(c)

\* with a beforeInit and an afterInit hook registered, a call resolved that
\* initialized a, then b which depends on a: hooks fired for both
C15_Witness ==
    \E c \in InitCalls :
        /\ calls[c].status = "resolved"
        /\ initialized = <<"a", "b">>
        /\ "a" \in DepSet("b")
        /\ Invoked(c, "beforeInit", "a") /\ Invoked(c, "afterInit", "a")
        /\ Invoked(c, "beforeInit", "b") /\ Invoked(c, "afterInit", "b")
        /\ Invoked(c, "initialize", "a") /\ Invoked(c, "initialize", "b")

C17_ModuleStepOrder ==
    \A c \in InitCalls :
        LET trace == calls[c].trace IN
        /\ \A j, k \in 1..Len(trace) :
              (j < k /\ trace[j].name # "" /\ trace[j].name = trace[k].name) =>
                 /\ StepRank(trace[j].op) <= StepRank(trace[k].op)
                 /\ StepRank(trace[j].op) = StepRank(trace[k].op) => trace[j].op \in ModuleEvents
        /\ \A k \in 1..Len(trace) :
              trace[k].name # "" =>
                 \A A \in DepSet(trace[k].name) \cap DOMAIN modules :
                    \E j \in 1..(k - 1) : trace[j] = Ev("add", A, 0)
        /\ \A k \in 1..Len(trace) :
              trace[k].op = "add" =>
                 LET M == trace[k].name
                     before == SubSeq(trace, 1, k - 1)
                 IN /\ modules[M].initialize => \E j \in 1..(k - 1) : trace[j] = Ev("initialize", M, 0)
                    /\ (modules[M].routes /\ calls[c].app) =>
                          \E j \in 1..(k - 1) : trace[j] = Ev("routes", M, 0)
                    /\ Len(SelectSeq(before, LAMBDA e : e.op = "beforeInit" /\ e.name = M))
                          = Len(lifecycleHooks["beforeInit"])
                    /\ modules[M].services # 0 => getService(c, M, Undefined) = modules[M].services
        /\ (At(c, "hookAwait") /\ calls[c].hev = "afterInit") =>
              LET M == Frame(c).name IN
              /\ Has(initialized, M)
              /\ modules[M].services # 0 => getService(c, M, Undefined) = modules[M].services
        /\ (At(c, "hookAwait") /\ calls[c].hev = "beforeInit") =>
              LET M == Frame(c).name IN
              /\ ~Has(initialized, M)
              /\ M \notin DOMAIN calls[c].services
              /\ ~Invoked(c, "initialize", M)

\* an afterInit hook runs for a module that depends on another, declares
\* services and has an initialize, after a beforeInit hook fired for it
C17_Witness ==
    \E c \in InitCalls :
        /\ At(c, "hookAwait")
        /\ calls[c].hev = "afterInit"
        /\ LET M == Frame(c).name IN
              /\ DepSet(M) \cap DOMAIN modules # {}
              /\ modules[M].services # 0
              /\ Invoked(c, "beforeInit", M)
              /\ Invoked(c, "initialize", M)

C20_ShutdownLeavesNothing ==
    \A c \in ShutdownCalls :
        LET trace == calls[c].trace
            last  == Len(callLog)
        IN
        /\ calls[c].status = "resolved" =>
              /\ initialized = << >>
              /\ Len(OpNames(trace, "afterShutdown")) = Len(lifecycleHooks["afterShutdown"])
              /\ \A j, k \in 1..Len(trace) :
                    (/\ trace[j].op = "afterShutdown"
                     /\ trace[k].op \in {"shutdown", "shutdownLogged", "shutdownError"}) => k < j
        /\ (/\ last >= 2
            /\ callLog[last - 1].kind = "shutdown"
            /\ callLog[last] = [kind |-> "shutdown", previous |-> "resolved"]) =>
               /\ calls[c].moduleNames = << >>
               /\ OpNames(trace, "shutdown") = << >>

\* the caller initialized a module that has a shutdown function, shut down, and
\* shut down again; each call resolved, and the last one fired an afterShutdown
\* hook without a shutdown
C20_Witness ==
    \E c \in ShutdownCalls :
        /\ calls[c].status = "resolved"
        /\ Len(callLog) = 3
        /\ callLog[1].kind = "init"
        /\ callLog[2] = [kind |-> "shutdown", previous |-> "resolved"]
        /\ callLog[3] = [kind |-> "shutdown", previous |-> "resolved"]
        /\ \E n \in DOMAIN modules : modules[n].shutdown /\ DepSet(n) = {}
        /\ calls[c].trace # << >>
        /\ \A k \in 1..Len(calls[c].trace) : calls[c].trace[k].op = "afterShutdown"

(***************************************************************************)
(* C21.  context.getService(moduleName, serviceName) returns undefined     *)
(* when the context has no services under moduleName, also for a module    *)
(* asking for its own services from its initialize; otherwise it returns   *)
(* services[moduleName][serviceName] when a serviceName is given and the   *)
(* whole services object when none is.                                     *)
(***************************************************************************)
C21_GetServiceAsSpecified ==
    \A c \in InitCalls, m \in Names \cup {Ghost}, s \in ServiceNames :
        /\ getService(c, m, s) =
              IF m \notin DOMAIN calls[c].services THEN 0
              ELSE IF s = Undefined THEN calls[c].services[m]
              ELSE Property(calls[c].services[m], s)
        /\ At(c, "initAwait") => getService(c, Frame(c).name, s) = 0

\* what does hold of the code: the same for every service name but the empty string
C21_GetServiceOfNonEmptyName ==
    \A c \in InitCalls, m \in Names \cup {Ghost}, s \in ServiceNames \ {""} :
        /\ getService(c, m, s) =
              IF m \notin DOMAIN calls[c].services THEN 0
              ELSE IF s = Undefined THEN calls[c].services[m]
              ELSE Property(calls[c].services[m], s)
        /\ At(c, "initAwait") => getService(c, Frame(c).name, s) = 0

C23_SnapshotIndependent ==
    /\ [](result.op = "getAllModules" => SnapshotObject = modules)
    /\ [][modules' = modules \/ SnapshotObject' = SnapshotObject]_vars
    /\ [][SnapshotObject' # SnapshotObject => moduleKeys' = moduleKeys]_vars

\* the caller holds a listing in which it replaced the definition of one
\* registered module, and which lacks another module of the registry
C23_Witness ==
    /\ snapshot.ref # "none"
    /\ \E n \in DOMAIN modules \cap DOMAIN SnapshotObject : SnapshotObject[n] # modules[n]
    /\ \E n \in DOMAIN modules : n \notin DOMAIN SnapshotObject

(***************************************************************************)
(* C24.  The registry only grows: every step keeps each registered name    *)
(* mapped to the definition it has, and keeps the order of the names       *)
(* registered so far; the registry changes only in a registerModule step,  *)
(* and never in a step of an initializeModules or shutdownModules call,    *)
(* whether the call resolves or rejects.                                   *)
(***************************************************************************)
C24_RegistryAppendOnly ==
    [][/\ \A n \in DOMAIN modules : n \in DOMAIN modules' /\ modules'[n] = modules[n]
       /\ Len(moduleKeys') >= Len(moduleKeys)
       /\ SubSeq(moduleKeys', 1, Len(moduleKeys)) = moduleKeys
       /\ (modules' # modules \/ moduleKeys' # moduleKeys) =>
             /\ result'.op = "registerModule"
             /\ calls' = calls
       /\ calls' # calls => (modules' = modules /\ moduleKeys' = moduleKeys)]_vars

\* after a shutdownModules call that shut a module down, the caller registered
\* another definition under a registered name and was given the first one
C24_Witness ==
    \E c \in ShutdownCalls :
        /\ calls[c].status = "resolved"
        /\ OpNames(calls[c].trace, "shutdown") # << >>
        /\ result.op = "registerModule"
        /\ result.tag = "return"
        /\ result.name \in DOMAIN modules
        /\ result.arg # result.id
        /\ modules[result.name].id = result.id

C26_FreshContext ==
    /\ [][\A c \in CallIds :
            calls[c].status # "active" /\ calls'[c].status = "active" /\ calls'[c].kind = "init"
                => calls'[c].services = << >> /\ calls'[c].state = << >>]_vars
    /\ [](\A c \in InitCalls :
            \A m \in DOMAIN calls[c].services :
                \E i \in DOMAIN Added(calls[c].trace) : Added(calls[c].trace)[i] = m)
    /\ [][\A x \in {0} \cup CallIds, y \in {0} \cup CallIds :
            x # y /\ State(x)' # State(x) => State(y)' = State(y)]_vars
    /\ [][held.kept => held'.services = held.services /\ held'.call = held.call]_vars

\* the caller kept the context of an earlier call, with a published service and
\* a written state, and a later call resolved with its own services and
\* nothing under the key written on the kept context
C26_Witness ==
    /\ held.kept /\ held.call < Len(callLog)
    /\ "a" \in DOMAIN held.services
    /\ "a" \in DOMAIN held.state /\ held.state["a"] = "v"
    /\ calls[1].kind = "init" /\ calls[1].status = "resolved"
    /\ "a" \in DOMAIN calls[1].services
    /\ "a" \notin DOMAIN calls[1].state
    /\ getState(1, "a", "d") = "d"

(***************************************************************************)
(* C27.  In one initializeModules call the routes function of a module M   *)
(* is invoked at most once, only when M defines routes and there is an     *)
(* app, after the initialize of M (if it has one) returned and before M is *)
(* added and its services are published; once the initialization of M is   *)
(* past that point, routes was invoked exactly once if and only if M       *)
(* defines routes and there is an app.  A call without an app invokes no   *)
(* routes function, and when it resolves every module was added and has    *)
(* its services published.                                                 *)
(***************************************************************************)
C27_RoutesMounted ==
    \A c \in InitCalls :
        LET trace == calls[c].trace IN
        \A M \in DOMAIN modules :
            LET mounted == SelectSeq(trace, LAMBDA e : e = Ev("routes", M, 0))
                added == \E k \in 1..Len(trace) : trace[k] = Ev("add", M, 0)
                current == calls[c].status = "active" /\ calls[c].stack # << >>
                              /\ Frame(c).name = M
            IN
            /\ Len(mounted) <= 1
            /\ Len(mounted) = 1 =>
                  /\ modules[M].routes /\ calls[c].app
                  /\ modules[M].initialize =>
                        Pos(trace, Ev("initialize", M, 0)) < Pos(trace, Ev("routes", M, 0))
                  /\ added => Pos(trace, Ev("routes", M, 0)) < Pos(trace, Ev("add", M, 0))
                  /\ ~(current /\ calls[c].pc = "initAwait")
            /\ (added \/ (current /\ calls[c].pc = "publish")) =>
                  (Len(mounted) = 1 <=> (modules[M].routes /\ calls[c].app))
            /\ (current /\ calls[c].pc \in {"routes", "publish"}) =>
                  ~added /\ M \notin DOMAIN calls[c].services
            /\ ~calls[c].app => Len(mounted) = 0
            /\ (~calls[c].app /\ calls[c].status = "resolved") =>
                  /\ added
                  /\ modules[M].services # 0 =>
                        getService(c, M, Undefined) = modules[M].services

\* a call without an app resolved: a module that defines routes and services
\* was added and its services are published, and its routes were not invoked
C27_Witness ==
    \E c \in InitCalls :
        /\ calls[c].status = "resolved" /\ ~calls[c].app
        /\ \E M \in DOMAIN modules :
              /\ modules[M].routes /\ modules[M].services # 0
              /\ Invoked(c, "initialize", M) /\ Invoked(c, "add", M)
              /\ ~Invoked(c, "routes", M)
              /\ getService(c, M, Undefined) = modules[M].services

(***************************************************************************)
(* C28.  When an initializeModules call rejected with an error tagged with *)
(* a module M, M is not in the Initialized Set and context.services has no *)
(* entry for M, whichever step of the initialization of M failed.          *)
(***************************************************************************)
C28_FailedModuleLeftOut ==
    \A c \in InitCalls :
        (calls[c].status = "rejected" /\ calls[c].err.module # "") =>
            /\ ~Has(initialized, calls[c].err.module)
            /\ calls[c].err.module \notin DOMAIN calls[c].services

(***************************************************************************)
(* C28, for the failures before line 145: when the call rejected with an   *)
(* error tagged with M and the callback that failed was not an afterInit   *)
(* hook, M is not in the Initialized Set and has no entry in               *)
(* context.services.                                                       *)
(***************************************************************************)
C28_FailedBeforeAdditionLeftOut ==
    \A c \in InitCalls :
        (/\ calls[c].status = "rejected" /\ calls[c].err.module # ""
         /\ calls[c].trace[Len(calls[c].trace)].op # "afterInit") =>
            /\ ~Has(initialized, calls[c].err.module)
            /\ calls[c].err.module \notin DOMAIN calls[c].services
            /\ calls[c].trace[Len(calls[c].trace)].op \in {"beforeInit", "initialize", "routes"}
            /\ calls[c].trace[Len(calls[c].trace)].name = calls[c].err.module

(***************************************************************************)
(* C29.  Teardown is complete whatever the hooks do.  When a               *)
(* shutdownModules call has settled, the Initialized Set is empty, and no  *)
(* module that has a shutdown function is left in it without its shutdown  *)
(* having been invoked by the call.                                        *)
(***************************************************************************)
C29_TeardownComplete ==
    \A c \in ShutdownCalls :
        Settled(c) =>
            /\ initialized = << >>
            /\ \A n \in DOMAIN modules :
                  (Has(initialized, n) /\ modules[n].shutdown) => Invoked(c, "shutdown", n)

(***************************************************************************)
(* C29, for the calls whose beforeShutdown hooks all returned: when such a *)
(* call has settled, the Initialized Set is empty and the shutdown of      *)
(* every module that was in the set and has one was invoked, in reverse    *)
(* order.                                                                  *)
(***************************************************************************)
C29_TeardownCompleteAfterBeforeShutdown ==
    \A c \in ShutdownCalls :
        (Settled(c) /\ ~(calls[c].thrown.kind = "hook" /\ calls[c].hev = "beforeShutdown")) =>
            /\ initialized = << >>
            /\ OpNames(calls[c].trace, "shutdown")
                  = Reverse(HavingShutdown(calls[c].moduleNames))

(***************************************************************************)
(* C30.  A shutdownModules call that follows an initializeModules call     *)
(* which rejected part-way never invokes the shutdown of the module whose  *)
(* callback failed, and once it has settled it has invoked the shutdown of *)
(* exactly the other modules the rejected call had added to the            *)
(* Initialized Set, which are those it finds there (those that have a      *)
(* shutdown function), in reverse order of their addition.                 *)
(***************************************************************************)
C30_ShutdownAfterPartialInit ==
    \A c \in ShutdownCalls :
        LET last == Len(callLog) IN
        (/\ last >= 2
         /\ callLog[last].kind = "shutdown" /\ callLog[last].previous = "rejected"
         /\ callLog[last - 1].kind = "init") =>
            LET failed    == callLog[last].failed
                completed == SelectSeq(callLog[last].initialized, LAMBDA n : n # failed)
            IN /\ ~Invoked(c, "shutdown", failed)
               /\ Settled(c) =>
                     OpNames(calls[c].trace, "shutdown") = Reverse(HavingShutdown(completed))

(***************************************************************************)
(* C30, for the failures before line 145: when the module whose callback   *)
(* failed had not been added to the Initialized Set, the following         *)
(* shutdownModules invokes the shutdown of exactly the modules the         *)
(* rejected call had added, in reverse order, and not that of the failing  *)
(* module.                                                                 *)
(***************************************************************************)
C30_ShutdownAfterFailureBeforeAddition ==
    \A c \in ShutdownCalls :
        LET last == Len(callLog) IN
        (/\ last >= 2
         /\ callLog[last].kind = "shutdown" /\ callLog[last].previous = "rejected"
         /\ callLog[last - 1].kind = "init"
         /\ \A k \in DOMAIN callLog[last].initialized :
               callLog[last].initialized[k] # callLog[last].failed) =>
            /\ ~Invoked(c, "shutdown", callLog[last].failed)
            /\ Settled(c) =>
                  OpNames(calls[c].trace, "shutdown")
                      = Reverse(HavingShutdown(callLog[last].initialized))

(***************************************************************************)
(* C31.  When every initialize and every lifecycle hook terminates and the *)
(* dependency graph of the registered modules is acyclic, every            *)
(* initializeModules call eventually settles; a call that resolved has     *)
(* added every registered module to the Initialized Set, and a call that   *)
(* rejected rejected with the first error raised in it.                    *)
(***************************************************************************)
C31_SettlesWithFirstError ==
    /\ \A c \in CallIds :
          (Acyclic /\ calls[c].kind = "init" /\ calls[c].status = "active") ~> Settled(c)
    /\ [](\A c \in InitCalls :
            /\ calls[c].status = "resolved" =>
                  \A n \in DOMAIN modules : Invoked(c, "add", n) /\ Has(initialized, n)
            /\ calls[c].status = "rejected" =>
                  /\ calls[c].thrown.kind # "none"
                  /\ calls[c].err.kind = calls[c].thrown.kind
                  /\ calls[c].err.at = calls[c].thrown.at
                  /\ calls[c].err.obj = calls[c].thrown.obj)

(***************************************************************************)
(* C31, termination alone: when every initialize and every lifecycle hook  *)
(* terminates and the dependency graph is acyclic, every initializeModules *)
(* call eventually settles; a call that resolved has added every           *)
(* registered module, and a call that rejected had an error raised in it,  *)
(* with which it rejected when that error is an object.                    *)
(***************************************************************************)
C31_EventuallySettles ==
    /\ \A c \in CallIds :
          (Acyclic /\ calls[c].kind = "init" /\ calls[c].status = "active") ~> Settled(c)
    /\ [](\A c \in InitCalls :
            /\ calls[c].status = "resolved" =>
                  \A n \in DOMAIN modules : Invoked(c, "add", n) /\ Has(initialized, n)
            /\ calls[c].status = "rejected" =>
                  /\ calls[c].thrown.kind # "none"
                  /\ calls[c].thrown.obj =>
                        /\ calls[c].err.kind = calls[c].thrown.kind
                        /\ calls[c].err.at = calls[c].thrown.at
                        /\ calls[c].err.obj)

C33_ConcurrentCallsIndependent ==
    \A c \in InitCalls :
        /\ calls[c].status = "resolved" =>
              \A n \in DOMAIN modules :
                 modules[n].initialize =>
                    Len(SelectSeq(calls[c].trace, LAMBDA e : e = Ev("initialize", n, 0))) = 1
        /\ At(c, "initAwait") =>
              \A A \in DepSet(Frame(c).name) \cap DOMAIN modules :
                 modules[A].services # 0 =>
                    getService(c, A, Undefined) = modules[A].services

(***************************************************************************)
(* C34.  Every module that a shutdownModules call removes from the         *)
(* Initialized Set has had its shutdown function, if it has one, invoked   *)
(* by that call, also when modules were added to the set while the call    *)
(* was suspended.                                                          *)
(***************************************************************************)
C34_ClearedModulesWereShutDown ==
    [][\A c \in CallIds :
         (calls[c].kind = "shutdown" /\ At(c, "sdLoop") /\ calls'[c].pc = "hooks") =>
             \A k \in 1..Len(initialized) :
                 modules[initialized[k]].shutdown => Invoked(c, "shutdown", initialized[k])]_vars

(***************************************************************************)
(* C34, for the modules the call found: when a shutdownModules call clears *)
(* the Initialized Set, it has invoked the shutdown of every module that   *)
(* was in the set at line 221 and has one, in reverse order.               *)
(***************************************************************************)
C34_ListedModulesWereShutDown ==
    [][\A c \in CallIds :
         (calls[c].kind = "shutdown" /\ At(c, "sdLoop") /\ calls'[c].pc = "hooks") =>
             /\ initialized' = << >>
             /\ OpNames(calls[c].trace, "shutdown")
                   = Reverse(HavingShutdown(calls[c].moduleNames))]_vars

(***************************************************************************)
(* C35.  Without lifecycle hooks, over a registry whose dependencies are   *)
(* all registered and acyclic, an initializeModules call of the enhanced   *)
(* system, which starts from an empty Initialized Set like the first call  *)
(* of the simple system, invokes initialize and routes and adds modules in *)
(* the order of the simple system: its history is at every moment a        *)
(* beginning of the simple system's, and when it has resolved the two      *)
(* histories, the services of the two contexts and the two Initialized     *)
(* Sets, in order, are equal.                                              *)
(***************************************************************************)
C35_SimpleAndEnhancedAgree ==
    \A c \in InitCalls :
        (Acyclic /\ AllDependenciesRegistered
            /\ \A e \in LifecycleEvents : lifecycleHooks[e] = << >>) =>
            LET simple == SimpleInitializeModules(calls[c].app)
                steps  == ModuleSteps(calls[c].trace)
            IN /\ ~simple.failed
               /\ Len(steps) <= Len(simple.trace)
               /\ steps = SubSeq(simple.trace, 1, Len(steps))
               /\ calls[c].status = "resolved" =>
                     /\ steps = simple.trace
                     /\ calls[c].services = simple.services
                     /\ initialized = simple.initialized

\* a call resolved over three modules of which the first registered depends
\* on the two others, with routes mounted
C35_Witness ==
    \E c \in InitCalls :
        /\ calls[c].status = "resolved" /\ calls[c].app
        /\ Acyclic /\ AllDependenciesRegistered
        /\ Len(moduleKeys) = 3
        /\ Cardinality(DepSet(moduleKeys[1]) \cap DOMAIN modules) = 2
        /\ initialized # moduleKeys
        /\ initialized = SimpleInitializeModules(TRUE).initialized
        /\ \E n \in DOMAIN modules : Invoked(c, "routes", n)

(***************************************************************************)
(* C36.  When the function of a route has returned a value without writing *)
(* the response itself, and nothing before the route has responded, the    *)
(* value was sent once the request is handled: res.json was called with it *)
(* on Express, reply.send was called with it on the Fastify layer.         *)
(***************************************************************************)
C36_ReturnedValueIsSent ==
    (/\ exchange.pc = "done"
     /\ exchange.fn = "value"
     /\ ~exchange.writes
     /\ CallsOf(exchange, "earlier", "json") = {}) =>
        \E i \in 1..Len(exchange.log) :
            /\ exchange.log[i].op = IF exchange.layer = "fastify" THEN "send" ELSE "json"
            /\ exchange.log[i].arg = "value"

(***************************************************************************)
(* C36, for a route whose handler is createHandler(fn): the value fn       *)
(* returned was sent, exactly once, on either layer.                       *)
(***************************************************************************)
C36_WrappedValueIsSent ==
    (/\ exchange.pc = "done"
     /\ exchange.wrapped
     /\ exchange.fn = "value"
     /\ ~exchange.writes
     /\ CallsOf(exchange, "earlier", "json") = {}) =>
        LET sent == {i \in 1..Len(exchange.log) :
                        exchange.log[i].op
                            = IF exchange.layer = "fastify" THEN "send" ELSE "json"}
        IN  /\ Cardinality(sent) = 1
            /\ \A i \in sent : exchange.log[i].arg = "value"

(***************************************************************************)
(* C37.  Once the middleware of createHandler(fn) has settled, it has not  *)
(* rejected; if fn resolved to a value other than undefined and the        *)
(* headers were not sent, it called res.json once, with the value, and not *)
(* next; if fn resolved to undefined or the headers were sent, it called   *)
(* neither; if fn threw, it called next once, with the error thrown, and   *)
(* not res.json.                                                           *)
(***************************************************************************)
C37_CreateHandlerMiddleware ==
    (exchange.wrapped /\ exchange.settled # "none") =>
        LET json == CallsOf(exchange, "createHandler", "json")
            next == CallsOf(exchange, "createHandler", "next")
            sent == /\ exchange.layer = "express"
                    /\ CallsOf(exchange, "earlier", "json")
                           \cup CallsOf(exchange, "fn", "json") # {}
        IN  /\ exchange.settled = "resolved"
            /\ (exchange.fn \notin {Undefined, "throws"} /\ ~sent) =>
                  /\ Cardinality(json) = 1
                  /\ \A i \in json : exchange.log[i].arg = exchange.fn
                  /\ next = {}
            /\ (exchange.fn = Undefined \/ (exchange.fn # "throws" /\ sent)) =>
                  json = {} /\ next = {}
            /\ exchange.fn = "throws" =>
                  /\ Cardinality(next) = 1
                  /\ \A i \in next : exchange.log[i].arg = "thrown"
                  /\ json = {}

(***************************************************************************)
(* C37, for a middleware that is given a next function and values that     *)
(* JSON.stringify accepts: it resolves, and it has called res.json with    *)
(* the value, or nothing, or next with the error thrown, as the three      *)
(* cases say.                                                              *)
(***************************************************************************)
C37_WithNextAndSerializable ==
    (/\ exchange.wrapped /\ exchange.settled # "none"
     /\ exchange.layer = "express" /\ exchange.fn # "unserializable") =>
        LET json == CallsOf(exchange, "createHandler", "json")
            next == CallsOf(exchange, "createHandler", "next")
            sent == CallsOf(exchange, "earlier", "json")
                        \cup CallsOf(exchange, "fn", "json") # {}
        IN  /\ exchange.settled = "resolved"
            /\ (exchange.fn = "value" /\ ~sent) =>
                  /\ Cardinality(json) = 1
                  /\ \A i \in json : exchange.log[i].arg = "value"
                  /\ next = {}
            /\ (exchange.fn = Undefined \/ (exchange.fn = "value" /\ sent)) =>
                  json = {} /\ next = {}
            /\ exchange.fn = "throws" =>
                  /\ Cardinality(next) = 1
                  /\ \A i \in next : exchange.log[i].arg = "thrown"
                  /\ json = {}

(***************************************************************************)
(* C38.  Whatever login, logout, register, me and the services did before, *)
(* a call of authenticate(token) returns a user only for a token that a    *)
(* login issued, whose bearer has not logged out since, whose session has  *)
(* not expired and whose user is stored, and it is that user; in every     *)
(* other case it returns null; a session it finds expired or without its   *)
(* user is deleted.                                                        *)
(***************************************************************************)
C38_AuthenticateOnlyLiveSessions ==
    [][\A token \in TokenArgs : CallAuthenticate(token) =>
          /\ reply'.tag \in {"user", "null"}
          /\ reply'.tag = "user" =>
                /\ token \in DOMAIN sessions
                /\ token \in DOMAIN issued
                /\ ~issued[token].loggedOut
                /\ ~(issued[token].expiresAt < now)
                /\ reply'.user = issued[token].userId
                /\ reply'.user \in DOMAIN users
          /\ (/\ token \in DOMAIN sessions
              /\ \/ sessions[token].expiresAt < now
                 \/ sessions[token].userId \notin DOMAIN users) =>
                token \notin DOMAIN sessions']_vars

\* authenticate has returned null for a token that was issued and not logged
\* out but has expired, and its session is gone
C38_Witness ==
    /\ reply.op = "authenticate" /\ reply.tag = "null"
    /\ reply.token \in DOMAIN issued
    /\ ~issued[reply.token].loggedOut
    /\ issued[reply.token].expiresAt < now
    /\ reply.token \notin DOMAIN sessions
    /\ \E other \in DOMAIN sessions : sessions[other].expiresAt >= now

(***************************************************************************)
(* C39.  A logout request answers with success and leaves no session under *)
(* its bearer token; from then on, until a login issues that token again,  *)
(* authenticate returns null for it, hasRole returns false and GET         *)
(* /api/auth/me fails with 401; a logout without a token or with a token   *)
(* no session is stored under answers with success and leaves the sessions *)
(* as they are.                                                            *)
(***************************************************************************)
C39_LoggedOutStaysOut ==
    [][/\ \A header \in Headers : logout(header) =>
             /\ reply'.tag = "ok"
             /\ bearer(header) \notin DOMAIN sessions'
             /\ (~Truthy(bearer(header)) \/ bearer(header) \notin DOMAIN sessions) =>
                   sessions' = sessions
       /\ \A token \in Tokens : (token \in DOMAIN issued /\ issued[token].loggedOut) =>
             /\ CallAuthenticate(token) => reply'.tag = "null"
             /\ \A role \in Roles : hasRole(token, role) => reply'.tag = "false"
             /\ me(<<"Bearer", token>>) => reply'.tag = "401"]_vars

\* me has failed with 401 for a token that was logged out before it expired,
\* while the user it was issued to is still stored
C39_Witness ==
    /\ reply.op = "me" /\ reply.tag = "401"
    /\ reply.token \in DOMAIN issued
    /\ issued[reply.token].loggedOut
    /\ issued[reply.token].expiresAt >= now
    /\ issued[reply.token].userId \in DOMAIN users
    /\ reply.token \notin DOMAIN sessions

====
